---- MODULE Spec2Model ----
(***************************************************************************)
(* The field-level editors of scripts/edit (update_stakeholder,            *)
(* grade_assumption, grade_idea, add_insight, record_playback,             *)
(* update_phase) running as independent processes against one              *)
(* currentstate.json: load, in-memory change, validation, temporary file,  *)
(* rename.                                                                 *)
(*                                                                         *)
(* A JSON object is an ordered dictionary: a sequence of <<key, value>>    *)
(* pairs in insertion order, as a Python dict loaded by json.load.         *)
(* Python's None is the string None; an omitted keyword argument is a      *)
(* field that the call record does not have.                               *)
(***************************************************************************)
EXTENDS Integers, Sequences, FiniteSets, TLC

\* ---------------------------------------------------------------- bounds
\* invocations started in one behaviour
MaxCalls == 2
\* last value of the wall clock
MaxClock == 2
\* tokens that one write to the temporary file puts on disk
ChunkLen == 6
\* editor processes that may run at the same time
NumProcs == 2

Procs == 1..NumProcs

None == "None"

\* ------------------------------------------------- Python dict primitives
\* `k in d`
Has(d, k) == \E i \in 1..Len(d) : d[i][1] = k

\* `d[k]` for a key that is present
Get(d, k) == d[CHOOSE i \in 1..Len(d) : d[i][1] = k][2]

\* `d[k] = v`: in place when the key exists, else a new last key
Put(d, k, v) ==
    IF Has(d, k)
    THEN [i \in 1..Len(d) |-> IF d[i][1] = k THEN <<k, v>> ELSE d[i]]
    ELSE Append(d, <<k, v>>)

\* a keyword argument was supplied (is not None)
Given(c, k) == k \in DOMAIN c

\* ------------------------------------------------------------ enum sets
valid_phases == {"empathize", "define", "ideate", "prototype", "iterate"}
grades == {"high", "medium", "low"}
stakeholder_types == {"group", "individual"}
assumption_statuses == {"open", "validating", "validated", "invalidated"}
idea_statuses ==
    {"ideated", "prototyping", "iterating", "validated", "invalidated",
     "implemented"}
\* strings that datetime.strptime(date, "%Y-%m-%d") accepts, among the inputs
valid_dates == {"2024-01-15"}

required_fields == {"project_name", "created_at", "updated_at", "phase"}

\* ------------------------------------------------ serialisation of a file
OpenBrace == <<"{">>
CloseBrace == <<"}">>
Newline == <<"newline">>

\* json.dump(state, tmp_file, indent=2): one token per top-level member
json_dump(state) == <<OpenBrace>> \o state \o <<CloseBrace>>

\* what an editor writes: the object, then tmp_file.write("\n")
FileText(state) == json_dump(state) \o <<Newline>>

RECURSIVE rstrip(_)
\* trailing whitespace, which json.load skips
rstrip(text) ==
    IF text # <<>> /\ text[Len(text)] = Newline
    THEN rstrip(SubSeq(text, 1, Len(text) - 1))
    ELSE text

\* json.load(f): the object, or JSONDecodeError for any other text
json_load(text) ==
    LET body == rstrip(text)
        n == Len(body)
    IN  IF /\ n >= 2
           /\ body[1] = OpenBrace
           /\ body[n] = CloseBrace
           /\ \A i \in 2..(n - 1) : Len(body[i]) = 2
        THEN [ok |-> TRUE, value |-> SubSeq(body, 2, n - 1)]
        ELSE [ok |-> FALSE, value |-> <<>>]

\* ------------------------------------------------------- result envelope
NoData == <<>>

\* Success that reports the document's created_at as the new timestamp
Success_created_at(state, data) ==
    [status |-> "success",
     data |-> Put(data, "updated_at", Get(state, "created_at")),
     error |-> None, state |-> state]

\* Error that hands back the document as the editor left it in memory
Error_with_state(kind, state) ==
    [status |-> "error", data |-> state, error |-> kind, state |-> state]

Success(state, data) ==
    [status |-> "success", data |-> data, error |-> None, state |-> state]

\* state: the in-memory document when the editor returns
Error(kind, state) ==
    [status |-> "error", data |-> NoData, error |-> kind, state |-> state]

\* ------------------------------------------------------------ validators
\* validate_top_level without the membership test of phase
validate_required_only(data) ==
    \A field \in required_fields : Has(data, field)

\* the part every editor's validate_against_schema starts with
validate_top_level(data) ==
    /\ \A field \in required_fields : Has(data, field)
    /\ Get(data, "phase") \in valid_phases

\* every item of the list has the required keys
items_have(list, required) ==
    \A idx \in 1..Len(list) : \A field \in required : Has(list[idx], field)

\* the key, when present on an item, holds one of the allowed values
items_enum(list, field, allowed) ==
    \A idx \in 1..Len(list) :
        Has(list[idx], field) => Get(list[idx], field) \in allowed

update_stakeholder_validate(data) ==
    /\ validate_top_level(data)
    /\ Has(data, "stakeholders") =>
          /\ items_have(Get(data, "stakeholders"), {"id", "name", "type"})
          /\ items_enum(Get(data, "stakeholders"), "type", stakeholder_types)

grade_assumption_validate(data) ==
    /\ validate_top_level(data)
    /\ Has(data, "assumptions") =>
          /\ items_have(Get(data, "assumptions"),
                        {"id", "description", "certainty", "risk"})
          /\ items_enum(Get(data, "assumptions"), "certainty", grades)
          /\ items_enum(Get(data, "assumptions"), "risk", grades)
          /\ items_enum(Get(data, "assumptions"), "status",
                        assumption_statuses)

grade_idea_validate(data) ==
    /\ validate_top_level(data)
    /\ Has(data, "ideas") =>
          /\ items_have(Get(data, "ideas"), {"id", "title", "status"})
          /\ items_enum(Get(data, "ideas"), "impact", grades)
          /\ items_enum(Get(data, "ideas"), "feasibility", grades)
          /\ items_enum(Get(data, "ideas"), "status", idea_statuses)

add_insight_validate(data) ==
    /\ validate_top_level(data)
    /\ Has(data, "insights") =>
          /\ items_have(Get(data, "insights"), {"id", "title", "description"})
          /\ items_enum(Get(data, "insights"), "confidence", grades)

record_playback_validate(data) ==
    /\ validate_top_level(data)
    /\ Has(data, "playbacks") =>
          items_have(Get(data, "playbacks"), {"id", "date", "audience"})

update_phase_validate(data) == validate_top_level(data)

\* ------------------------------------------------------- in-memory edits
RECURSIVE find_by_identity(_, _, _)
\* find_by_id with `is` for `==`: no loaded id is the argument's object
find_by_identity(list, id, i) ==
    IF i > Len(list) THEN 0
    ELSE IF ~Has(list[i], "id") THEN -1
    ELSE find_by_identity(list, id, i + 1)

RECURSIVE find_or_first(_, _, _)
\* find_by_id that settles for the first item when no id matches
find_or_first(list, id, i) ==
    IF i > Len(list) THEN (IF Len(list) > 0 THEN 1 ELSE 0)
    ELSE IF ~Has(list[i], "id") THEN -1
    ELSE IF Get(list[i], "id") = id THEN i
    ELSE find_or_first(list, id, i + 1)

RECURSIVE find_by_id(_, _, _)
\* the loop `for e in list: if e["id"] == id`: the index of the first match,
\* 0 when there is none, -1 when an item without "id" raises KeyError first
find_by_id(list, id, i) ==
    IF i > Len(list) THEN 0
    ELSE IF ~Has(list[i], "id") THEN -1
    ELSE IF Get(list[i], "id") = id THEN i
    ELSE find_by_id(list, id, i + 1)

\* a plain field: overwritten when supplied
set_field(entity, c, arg, field) ==
    IF Given(c, arg) THEN Put(entity, field, c[arg]) ELSE entity

\* set_list that empties a list the call does not supply
set_list_clearing(entity, c, arg, field, flag) ==
    IF ~Given(c, arg) THEN Put(entity, field, <<>>)
    ELSE IF Given(c, flag) /\ c[flag] /\ Has(entity, field)
         THEN Put(entity, field, Get(entity, field) \o c[arg])
         ELSE Put(entity, field, c[arg])

\* set_list that appends whatever the flag says
set_list_appending(entity, c, arg, field, flag) ==
    IF ~Given(c, arg) THEN entity
    ELSE IF Has(entity, field)
         THEN Put(entity, field, Get(entity, field) \o c[arg])
         ELSE Put(entity, field, c[arg])

\* a list field with its append flag
set_list(entity, c, arg, field, flag) ==
    IF ~Given(c, arg) THEN entity
    ELSE IF Given(c, flag) /\ c[flag] /\ Has(entity, field)
         THEN Put(entity, field, Get(entity, field) \o c[arg])
         ELSE Put(entity, field, c[arg])

\* with_item that appends the new item twice
with_item_twice(list, idx, entity) ==
    IF idx = Len(list) + 1 THEN Append(Append(list, entity), entity)
    ELSE [list EXCEPT ![idx] = entity]

\* with_item that puts a new item first
with_item_front(list, idx, entity) ==
    IF idx = Len(list) + 1 THEN <<entity>> \o list
    ELSE [list EXCEPT ![idx] = entity]

\* the list with item idx replaced, or with the item appended when idx is
\* one past the end
with_item(list, idx, entity) ==
    IF idx = Len(list) + 1 THEN Append(list, entity)
    ELSE [list EXCEPT ![idx] = entity]

\* `not name`: None or the empty string
Falsy(c, arg) == ~Given(c, arg) \/ c[arg] = ""

update_stakeholder(loaded, c, now) ==
    LET state == IF Has(loaded, "stakeholders") THEN loaded
                 ELSE Put(loaded, "stakeholders", <<>>)
        list == Get(state, "stakeholders")
        found == find_by_id(list, c.id, 1)
    IN  IF found = -1 THEN Error("Exception", state)
        ELSE IF found = 0 /\ (Falsy(c, "name") \/ Falsy(c, "type"))
        THEN Error("RequiredForNew", state)
        ELSE
        LET stakeholder_idx == IF found = 0 THEN Len(list) + 1 ELSE found
            stakeholder ==
                IF found = 0
                THEN << <<"id", c.id>>, <<"name", c.name>>,
                        <<"type", c.type>> >>
                ELSE list[found]
            mem(e) == Put(state, "stakeholders",
                          with_item(list, stakeholder_idx, e))
            e1 == set_field(stakeholder, c, "name", "name")
            e2 == set_field(e1, c, "type", "type")
            e3 == set_field(e2, c, "role", "role")
            e4 == set_list(e3, c, "needs", "needs", "append_needs")
            e5 == set_list(e4, c, "pain_points", "pain_points",
                           "append_pain_points")
            e6 == set_list(e5, c, "notes_links", "notes_links",
                           "append_notes")
            s2 == Put(mem(e6), "updated_at", now)
        IN  IF Given(c, "type") /\ c.type \notin stakeholder_types
            THEN Error("InvalidValue", mem(e1))
            ELSE IF ~update_stakeholder_validate(s2)
            THEN Error("SchemaViolation", s2)
            ELSE Success(s2, << <<"stakeholder_id", c.id>>,
                                <<"stakeholder", e6>>,
                                <<"updated_at", now>> >>)

grade_assumption(loaded, c, now) ==
    IF ~Has(loaded, "assumptions") THEN Error("NotFound", loaded)
    ELSE
    LET list == Get(loaded, "assumptions")
        found == find_by_id(list, c.id, 1)
        mem(e) == Put(loaded, "assumptions", with_item(list, found, e))
        e1 == set_field(list[found], c, "certainty", "certainty")
        e2 == set_field(e1, c, "risk", "risk")
        e3 == set_field(e2, c, "validation_plan", "validation_plan")
        e4 == set_field(e3, c, "status", "status")
        s2 == Put(mem(e4), "updated_at", now)
    IN  IF found = -1 THEN Error("Exception", loaded)
        ELSE IF found = 0 THEN Error("NotFound", loaded)
        ELSE IF Given(c, "certainty") /\ c.certainty \notin grades
        THEN Error("InvalidValue", loaded)
        ELSE IF Given(c, "risk") /\ c.risk \notin grades
        THEN Error("InvalidValue", mem(e1))
        ELSE IF Given(c, "status") /\ c.status \notin assumption_statuses
        THEN Error("InvalidValue", mem(e3))
        ELSE IF ~grade_assumption_validate(s2)
        THEN Error("SchemaViolation", s2)
        ELSE Success(s2, << <<"assumption_id", c.id>>,
                            <<"assumption", e4>>,
                            <<"updated_at", now>> >>)

grade_idea(loaded, c, now) ==
    IF ~Has(loaded, "ideas") THEN Error("NotFound", loaded)
    ELSE
    LET list == Get(loaded, "ideas")
        found == find_by_id(list, c.id, 1)
        mem(e) == Put(loaded, "ideas", with_item(list, found, e))
        e1 == set_field(list[found], c, "impact", "impact")
        e2 == set_field(e1, c, "feasibility", "feasibility")
        e3 == set_field(e2, c, "status", "status")
        e4 == set_field(e3, c, "idea_doc_link", "idea_doc_link")
        e5 == set_list(e4, c, "prototype_links", "prototype_links",
                       "append_prototype_links")
        s2 == Put(mem(e5), "updated_at", now)
    IN  IF found = -1 THEN Error("Exception", loaded)
        ELSE IF found = 0 THEN Error("NotFound", loaded)
        ELSE IF Given(c, "impact") /\ c.impact \notin grades
        THEN Error("InvalidValue", loaded)
        ELSE IF Given(c, "feasibility") /\ c.feasibility \notin grades
        THEN Error("InvalidValue", mem(e1))
        ELSE IF Given(c, "status") /\ c.status \notin idea_statuses
        THEN Error("InvalidValue", mem(e2))
        ELSE IF ~grade_idea_validate(s2)
        THEN Error("SchemaViolation", s2)
        ELSE Success(s2, << <<"idea_id", c.id>>, <<"idea", e5>>,
                            <<"updated_at", now>> >>)

\* the new insight is built, appended and validated
add_insight_new(state, c, now) ==
    LET list == Get(state, "insights")
        e0 == << <<"id", c.id>>, <<"title", c.title>>,
                 <<"description", c.description>> >>
        e1 == set_field(e0, c, "confidence", "confidence")
        e2 == set_field(e1, c, "sources", "sources")
        new_insight == set_field(e2, c, "implications", "implications")
        s1 == Put(state, "insights", Append(list, new_insight))
        s2 == Put(s1, "updated_at", now)
    IN  IF Given(c, "confidence") /\ c.confidence \notin grades
        THEN Error("InvalidValue", state)
        ELSE IF ~add_insight_validate(s2)
        THEN Error("SchemaViolation", s2)
        ELSE Success(s2, << <<"insight_id", c.id>>,
                            <<"insight", new_insight>>,
                            <<"updated_at", now>> >>)

\* add_insight without the loop that looks for the id
add_insight_unchecked(loaded, c, now) ==
    add_insight_new(IF Has(loaded, "insights") THEN loaded
                    ELSE Put(loaded, "insights", <<>>), c, now)

add_insight(loaded, c, now) ==
    LET state == IF Has(loaded, "insights") THEN loaded
                 ELSE Put(loaded, "insights", <<>>)
        found == find_by_id(Get(state, "insights"), c.id, 1)
    IN  IF found = -1 THEN Error("Exception", state)
        ELSE IF found > 0 THEN Error("AlreadyExists", state)
        ELSE add_insight_new(state, c, now)

\* record_playback_new that also moves the project to the playback's phase
record_playback_sets_phase(state, c, now) ==
    LET list == Get(state, "playbacks")
        e0 == << <<"id", c.id>>, <<"date", c.date>>,
                 <<"audience", c.audience>> >>
        e1 == set_field(e0, c, "phase", "phase")
        e2 == set_field(e1, c, "artifacts_link", "artifacts_link")
        new_playback == set_field(e2, c, "decisions", "decisions")
        s0 == set_field(state, c, "phase", "phase")
        s1 == Put(s0, "playbacks", Append(list, new_playback))
        s2 == Put(s1, "updated_at", now)
    IN  IF ~record_playback_validate(s2)
        THEN Error("SchemaViolation", s2)
        ELSE Success(s2, << <<"playback_id", c.id>>,
                            <<"playback", new_playback>>,
                            <<"updated_at", now>> >>)

\* the new playback is built, appended and validated
record_playback_new(state, c, now) ==
    LET list == Get(state, "playbacks")
        e0 == << <<"id", c.id>>, <<"date", c.date>>,
                 <<"audience", c.audience>> >>
        e1 == set_field(e0, c, "phase", "phase")
        e2 == set_field(e1, c, "artifacts_link", "artifacts_link")
        new_playback == set_field(e2, c, "decisions", "decisions")
        s1 == Put(state, "playbacks", Append(list, new_playback))
        s2 == Put(s1, "updated_at", now)
    IN  IF ~record_playback_validate(s2)
        THEN Error("SchemaViolation", s2)
        ELSE Success(s2, << <<"playback_id", c.id>>,
                            <<"playback", new_playback>>,
                            <<"updated_at", now>> >>)

\* record_playback without the check of the phase argument
record_playback_any_phase(loaded, c, now) ==
    LET state == IF Has(loaded, "playbacks") THEN loaded
                 ELSE Put(loaded, "playbacks", <<>>)
        found == find_by_id(Get(state, "playbacks"), c.id, 1)
    IN  IF found = -1 THEN Error("Exception", state)
        ELSE IF found > 0 THEN Error("AlreadyExists", state)
        ELSE IF c.date \notin valid_dates THEN Error("InvalidValue", state)
        ELSE record_playback_new(state, c, now)

record_playback(loaded, c, now) ==
    LET state == IF Has(loaded, "playbacks") THEN loaded
                 ELSE Put(loaded, "playbacks", <<>>)
        found == find_by_id(Get(state, "playbacks"), c.id, 1)
    IN  IF found = -1 THEN Error("Exception", state)
        ELSE IF found > 0 THEN Error("AlreadyExists", state)
        ELSE IF c.date \notin valid_dates THEN Error("InvalidValue", state)
        ELSE IF Given(c, "phase") /\ c.phase \notin valid_phases
        THEN Error("InvalidValue", state)
        ELSE record_playback_new(state, c, now)

\* update_phase with the timestamp copied from created_at
update_phase_created_at(loaded, c, now) ==
    LET old_phase == IF Has(loaded, "phase") THEN Get(loaded, "phase")
                     ELSE None
        s1 == Put(loaded, "phase", c.new_phase)
        s2 == Put(s1, "updated_at", Get(s1, "created_at"))
    IN  Success(s2, << <<"old_phase", old_phase>>,
                       <<"new_phase", c.new_phase>>,
                       <<"updated_at", Get(s1, "created_at")>> >>)

\* the place of a phase in the process
phase_rank(ph) ==
    CASE ph = "empathize" -> 1
      [] ph = "define" -> 2
      [] ph = "ideate" -> 3
      [] ph = "prototype" -> 4
      [] ph = "iterate" -> 5
      [] OTHER -> 0

\* update_phase that refuses to go back
update_phase_forward_only(loaded, c, now) ==
    LET old_phase == IF Has(loaded, "phase") THEN Get(loaded, "phase")
                     ELSE None
        s1 == Put(loaded, "phase", c.new_phase)
        s2 == Put(s1, "updated_at", now)
    IN  IF phase_rank(c.new_phase) < phase_rank(old_phase)
        THEN Error("InvalidValue", loaded)
        ELSE IF ~update_phase_validate(s2)
        THEN Error("SchemaViolation", s2)
        ELSE Success(s2, << <<"old_phase", old_phase>>,
                            <<"new_phase", c.new_phase>>,
                            <<"updated_at", now>> >>)

\* update_phase that stamps created_at along with updated_at
update_phase_restamped(loaded, c, now) ==
    LET old_phase == IF Has(loaded, "phase") THEN Get(loaded, "phase")
                     ELSE None
        s1 == Put(loaded, "phase", c.new_phase)
        s2 == Put(Put(s1, "created_at", now), "updated_at", now)
    IN  IF ~update_phase_validate(s2)
        THEN Error("SchemaViolation", s2)
        ELSE Success(s2, << <<"old_phase", old_phase>>,
                            <<"new_phase", c.new_phase>>,
                            <<"updated_at", now>> >>)

update_phase(loaded, c, now) ==
    LET old_phase == IF Has(loaded, "phase") THEN Get(loaded, "phase")
                     ELSE None
        s1 == Put(loaded, "phase", c.new_phase)
        s2 == Put(s1, "updated_at", now)
    IN  IF ~update_phase_validate(s2)
        THEN Error("SchemaViolation", s2)
        ELSE Success(s2, << <<"old_phase", old_phase>>,
                            <<"new_phase", c.new_phase>>,
                            <<"updated_at", now>> >>)

\* the editor that a call names, applied to the loaded document
apply_edit(loaded, c, now) ==
    CASE c.tool = "update_stakeholder" -> update_stakeholder(loaded, c, now)
      [] c.tool = "grade_assumption" -> grade_assumption(loaded, c, now)
      [] c.tool = "grade_idea" -> grade_idea(loaded, c, now)
      [] c.tool = "add_insight" -> add_insight(loaded, c, now)
      [] c.tool = "record_playback" -> record_playback(loaded, c, now)
      [] c.tool = "update_phase" -> update_phase(loaded, c, now)

\* ----------------------------------------------------- documents on disk
Stakeholder1 ==
    << <<"id", "s1">>, <<"name", "Engineers">>, <<"type", "group">>,
       <<"needs", <<"a">> >> >>

Assumption1 ==
    << <<"id", "a1">>, <<"description", "users want it">>,
       <<"certainty", "low">>, <<"risk", "high">>, <<"status", "open">> >>

Idea1 == << <<"id", "d1">>, <<"title", "wizard">>, <<"status", "ideated">> >>

Insight1 ==
    << <<"id", "i1">>, <<"title", "finding">>, <<"description", "x needs y">> >>

Playback1 ==
    << <<"id", "p0">>, <<"date", "2024-01-15">>, <<"audience", <<"lt">> >> >>

\* a project after some work: every list present, ids unique, enums valid
ValidDoc ==
    << <<"project_name", "demo">>, <<"created_at", 0>>, <<"updated_at", 0>>,
       <<"phase", "empathize">>,
       <<"stakeholders", <<Stakeholder1>> >>,
       <<"assumptions", <<Assumption1>> >>,
       <<"ideas", <<Idea1>> >>,
       <<"insights", <<Insight1>> >>,
       <<"playbacks", <<Playback1>> >> >>

\* the same file edited by hand: a phase outside the enum
BadPhaseDoc == Put(ValidDoc, "phase", "discover")

\* the same file edited by hand: an idea status outside the enum
BadIdeaDoc ==
    Put(ValidDoc, "ideas", <<Put(Idea1, "status", "parked")>>)

\* a document that has only the required top-level keys
BareDoc ==
    << <<"project_name", "demo">>, <<"created_at", 0>>, <<"updated_at", 0>>,
       <<"phase", "define">> >>

File(text) == [exists |-> TRUE, text |-> text]
NoFile == [exists |-> FALSE, text |-> <<>>]

\* currentstate.json before the first invocation
InitFiles ==
    { File(FileText(ValidDoc)),
      File(FileText(BadPhaseDoc)),
      File(FileText(BadIdeaDoc)),
      File(FileText(BareDoc)),
      File(SubSeq(FileText(ValidDoc), 1, 4)),
      NoFile }

\* ------------------------------------------------------------ the calls
US == "update_stakeholder"
GA == "grade_assumption"
GI == "grade_idea"
AI == "add_insight"
RP == "record_playback"
UP == "update_phase"

\* one successful call of each editor, a creation, and a collision
CallSet ==
    { [tool |-> US, id |-> "s1", role |-> "lead"],
      [tool |-> US, id |-> "s2", name |-> "Ops", type |-> "individual"],
      [tool |-> GA, id |-> "a1", certainty |-> "high", risk |-> "low"],
      [tool |-> GI, id |-> "d1", impact |-> "high", feasibility |-> "low"],
      [tool |-> AI, id |-> "i2", title |-> "pattern",
       description |-> "all said z", confidence |-> "high"],
      [tool |-> AI, id |-> "i1", title |-> "pattern",
       description |-> "all said z"],
      [tool |-> RP, id |-> "p1", date |-> "2024-01-15",
       audience |-> <<"lt">>, phase |-> "define"],
      [tool |-> UP, new_phase |-> "ideate"] }

\* calls that the editors refuse, and list updates
MoreCalls ==
    { [tool |-> US, id |-> "s1", needs |-> <<"b">>, append_needs |-> TRUE],
      [tool |-> US, id |-> "s2", name |-> "Ops", type |-> "team"],
      [tool |-> US, id |-> "s1", name |-> "Devs", type |-> "team"],
      [tool |-> US, id |-> "s2", role |-> "lead"],
      [tool |-> GA, id |-> "a1", certainty |-> "sure"],
      [tool |-> GA, id |-> "a1", certainty |-> "medium", risk |-> "huge"],
      [tool |-> GA, id |-> "a1", certainty |-> "medium",
       validation_plan |-> "survey", status |-> "closed"],
      [tool |-> GA, id |-> "a9", certainty |-> "high"],
      [tool |-> GI, id |-> "d1", impact |-> "huge"],
      [tool |-> GI, id |-> "d1", impact |-> "high", feasibility |-> "easy"],
      [tool |-> GI, id |-> "d1", impact |-> "high", status |-> "bogus"],
      [tool |-> GI, id |-> "d9", status |-> "prototyping"],
      [tool |-> AI, id |-> "i2", title |-> "pattern",
       description |-> "all said z", confidence |-> "sure"],
      [tool |-> AI, id |-> "i1", title |-> "pattern",
       description |-> "all said z", confidence |-> "sure"],
      [tool |-> RP, id |-> "p0", date |-> "2024-01-15",
       audience |-> <<"team">>],
      [tool |-> RP, id |-> "p0", date |-> "15/01/2024",
       audience |-> <<"team">>, phase |-> "launch"],
      [tool |-> RP, id |-> "p1", date |-> "15/01/2024",
       audience |-> <<"lt">>],
      [tool |-> RP, id |-> "p1", date |-> "2024-01-15",
       audience |-> <<"lt">>, phase |-> "launch"],
      [tool |-> UP, new_phase |-> "launch"] }

SeqCalls == CallSet \cup MoreCalls

NoCall == [tool |-> "none"]
NoResult == [status |-> "none", data |-> NoData, error |-> None]
Envelope(r) == [status |-> r.status, data |-> r.data, error |-> r.error]

\* ---------------------------------------------------------------- state
VARIABLES
    disk,       \* currentstate.json: [exists, text]
    tmpdir,     \* the *.tmp files of the project directory: name -> text
    clock,      \* datetime.now()
    ncalls,     \* invocations started so far
    pc,         \* where each editor process is
    call,       \* its arguments
    state,      \* its in-memory document
    data,       \* the `data` member it will return
    tmp_path,   \* the name of its temporary file, 0 before it has one
    result,     \* the envelope it returned
    pre,        \* history: currentstate.json when it loaded
    stale,      \* history: another process renamed since it loaded
    renames,    \* history: renames onto currentstate.json it performed
    inv,        \* history: the number of its invocation, 0 before the first
    writes      \* history: the renames onto currentstate.json, in order

vars ==
    <<disk, tmpdir, clock, ncalls, pc, call, state, data, tmp_path, result,
      pre, stale, renames, inv, writes>>

Init ==
    /\ disk \in InitFiles
    /\ tmpdir = <<>>
    /\ clock = 1
    /\ ncalls = 0
    /\ pc = [p \in Procs |-> "idle"]
    /\ call = [p \in Procs |-> NoCall]
    /\ state = [p \in Procs |-> <<>>]
    /\ data = [p \in Procs |-> NoData]
    /\ tmp_path = [p \in Procs |-> 0]
    /\ result = [p \in Procs |-> NoResult]
    /\ pre = [p \in Procs |-> NoFile]
    /\ stale = [p \in Procs |-> FALSE]
    /\ renames = [p \in Procs |-> 0]
    /\ inv = [p \in Procs |-> 0]
    /\ writes = <<>>

\* the editor returns an error envelope
Fail(p, kind, mem) ==
    /\ pc' = [pc EXCEPT ![p] = "done"]
    /\ result' = [result EXCEPT ![p] = Envelope(Error(kind, mem))]
    /\ state' = [state EXCEPT ![p] = mem]

\* a process slot that no editor is running in
Free == {"idle", "done", "killed"}

\* a process starts an editor: state_file.exists(), open, json.load.  A new
\* process takes the lowest free slot (the slots are interchangeable).
Invoke(p, c) ==
    /\ pc[p] \in Free
    /\ \A q \in Procs : q < p => pc[q] \notin Free
    /\ ncalls < MaxCalls
    /\ ncalls' = ncalls + 1
    /\ call' = [call EXCEPT ![p] = c]
    /\ data' = [data EXCEPT ![p] = NoData]
    /\ tmp_path' = [tmp_path EXCEPT ![p] = 0]
    /\ pre' = [pre EXCEPT ![p] = disk]
    /\ stale' = [stale EXCEPT ![p] = FALSE]
    /\ renames' = [renames EXCEPT ![p] = 0]
    /\ inv' = [inv EXCEPT ![p] = ncalls + 1]
    /\ IF ~disk.exists
       THEN Fail(p, "NotFound", <<>>)
       ELSE IF c.tool = UP /\ c.new_phase \notin valid_phases
       THEN Fail(p, "InvalidValue", <<>>)
       ELSE IF ~json_load(disk.text).ok
       THEN Fail(p, "JSONDecodeError", <<>>)
       ELSE /\ pc' = [pc EXCEPT ![p] = "mutate"]
            /\ state' = [state EXCEPT ![p] = json_load(disk.text).value]
            /\ result' = [result EXCEPT ![p] = NoResult]
    /\ UNCHANGED <<disk, tmpdir, clock, writes>>

\* Mutate on the file as it is now, not as it was when the editor started
MutateReloaded(p) ==
    /\ pc[p] = "mutate"
    /\ \E now \in {clock, clock + 1} :
          /\ now <= MaxClock
          /\ clock' = now
          /\ LET r == apply_edit(json_load(disk.text).value, call[p], now)
             IN  IF r.status = "error"
                 THEN /\ Fail(p, r.error, r.state)
                      /\ data' = data
                 ELSE /\ pc' = [pc EXCEPT ![p] = "create"]
                      /\ state' = [state EXCEPT ![p] = r.state]
                      /\ data' = [data EXCEPT ![p] = r.data]
                      /\ result' = result
    /\ UNCHANGED <<disk, tmpdir, ncalls, call, tmp_path, pre, stale, renames,
                   inv, writes>>

\* the change in memory, the timestamp and the validation
Mutate(p) ==
    /\ pc[p] = "mutate"
    /\ \E now \in {clock, clock + 1} :
          /\ now <= MaxClock
          /\ clock' = now
          /\ LET r == apply_edit(state[p], call[p], now)
             IN  IF r.status = "error"
                 THEN /\ Fail(p, r.error, r.state)
                      /\ data' = data
                 ELSE /\ pc' = [pc EXCEPT ![p] = "create"]
                      /\ state' = [state EXCEPT ![p] = r.state]
                      /\ data' = [data EXCEPT ![p] = r.data]
                      /\ result' = result
    /\ UNCHANGED <<disk, tmpdir, ncalls, call, tmp_path, pre, stale, renames,
                   inv, writes>>

\* a file name that the directory does not have
FreshName == CHOOSE n \in 1..MaxCalls : n \notin DOMAIN tmpdir

\* CreateTmp with the target itself opened for writing, which truncates it
CreateInPlace(p) ==
    /\ pc[p] = "create"
    /\ tmp_path' = [tmp_path EXCEPT ![p] = FreshName]
    /\ tmpdir' = (FreshName :> <<>>) @@ tmpdir
    /\ disk' = File(<<>>)
    /\ pc' = [pc EXCEPT ![p] = "write"]
    /\ UNCHANGED <<state, result, clock, ncalls, call, data, pre, stale,
                   renames, inv, writes>>

\* tempfile.NamedTemporaryFile(dir=state_file.parent, delete=False)
CreateTmp(p) ==
    /\ pc[p] = "create"
    /\ \/ /\ tmp_path' = [tmp_path EXCEPT ![p] = FreshName]
          /\ tmpdir' = (FreshName :> <<>>) @@ tmpdir
          /\ pc' = [pc EXCEPT ![p] = "write"]
          /\ UNCHANGED <<state, result>>
       \/ /\ Fail(p, "Exception", state[p])
          /\ UNCHANGED <<tmp_path, tmpdir>>
    /\ UNCHANGED <<disk, clock, ncalls, call, data, pre, stale, renames,
                   inv, writes>>

Min(a, b) == IF a < b THEN a ELSE b

\* WriteTmp that goes on to the rename after its first chunk, the rest still
\* in the buffer
WriteTmpUnflushed(p) ==
    /\ pc[p] = "write"
    /\ tmpdir' = [tmpdir EXCEPT ![tmp_path[p]] =
                      SubSeq(FileText(state[p]), 1, ChunkLen)]
    /\ pc' = [pc EXCEPT ![p] = "rename"]
    /\ UNCHANGED <<state, result, disk, clock, ncalls, call, data, tmp_path,
                   pre, stale, renames, inv, writes>>

\* json.dump and write("\n") reach the temporary file a chunk at a time; the
\* last chunk closes it
WriteTmp(p) ==
    /\ pc[p] = "write"
    /\ LET text == FileText(state[p])
           n == Min(Len(tmpdir[tmp_path[p]]) + ChunkLen, Len(text))
       IN  \/ /\ tmpdir' = [tmpdir EXCEPT ![tmp_path[p]] = SubSeq(text, 1, n)]
              /\ pc' = [pc EXCEPT ![p] =
                            IF n = Len(text) THEN "rename" ELSE "write"]
              /\ UNCHANGED <<state, result>>
           \/ /\ Fail(p, "Exception", state[p])
              /\ UNCHANGED tmpdir
    /\ UNCHANGED <<disk, clock, ncalls, call, data, tmp_path, pre, stale,
                   renames, inv, writes>>

\* the directory without one file
Unlink(dir, name) == [n \in DOMAIN dir \ {name} |-> dir[n]]

\* Rename as a copy followed by an unlink that may fail
RenameByCopy(p) ==
    /\ pc[p] = "rename"
    /\ disk' = File(tmpdir[tmp_path[p]])
    /\ Fail(p, "Exception", state[p])
    /\ UNCHANGED <<tmpdir, renames, stale, writes, clock, ncalls, call, data,
                   tmp_path, pre, inv>>

\* Rename that writes the temporary file again and retries when the rename
\* fails
RenameRetrying(p) ==
    /\ pc[p] = "rename"
    /\ \/ /\ disk' = File(tmpdir[tmp_path[p]])
          /\ tmpdir' = Unlink(tmpdir, tmp_path[p])
          /\ pc' = [pc EXCEPT ![p] = "renamed"]
          /\ renames' = [renames EXCEPT ![p] = @ + 1]
          /\ stale' = [q \in Procs |-> IF q = p THEN stale[q] ELSE TRUE]
          /\ writes' = Append(writes,
                               [inv |-> inv[p],
                                updated_at |-> Get(state[p], "updated_at"),
                                stale |-> stale[p]])
          /\ UNCHANGED <<state, result>>
       \/ /\ tmpdir' = [tmpdir EXCEPT ![tmp_path[p]] = <<>>]
          /\ pc' = [pc EXCEPT ![p] = "write"]
          /\ UNCHANGED <<disk, renames, stale, writes, state, result>>
    /\ UNCHANGED <<clock, ncalls, call, data, tmp_path, pre, inv>>

\* tmp_path.replace(state_file)
Rename(p) ==
    /\ pc[p] = "rename"
    /\ \/ /\ disk' = File(tmpdir[tmp_path[p]])
          /\ tmpdir' = Unlink(tmpdir, tmp_path[p])
          /\ pc' = [pc EXCEPT ![p] = "renamed"]
          /\ renames' = [renames EXCEPT ![p] = @ + 1]
          /\ stale' = [q \in Procs |-> IF q = p THEN stale[q] ELSE TRUE]
          /\ writes' = Append(writes,
                               [inv |-> inv[p],
                                updated_at |-> Get(state[p], "updated_at"),
                                stale |-> stale[p]])
          /\ UNCHANGED <<state, result>>
       \/ /\ Fail(p, "Exception", state[p])
          /\ UNCHANGED <<disk, tmpdir, renames, stale, writes>>
    /\ UNCHANGED <<clock, ncalls, call, data, tmp_path, pre, inv>>

\* return {"status": "success", ...}
Return(p) ==
    /\ pc[p] = "renamed"
    /\ pc' = [pc EXCEPT ![p] = "done"]
    /\ result' = [result EXCEPT ![p] =
                     [status |-> "success", data |-> data[p], error |-> None]]
    /\ UNCHANGED <<disk, tmpdir, clock, ncalls, call, state, data, tmp_path,
                   pre, stale, renames, inv, writes>>

Running == {"mutate", "create", "write", "rename", "renamed"}

\* the process is killed between two of its steps: its memory is gone, its
\* files stay
Kill(p) ==
    /\ pc[p] \in Running
    /\ pc' = [pc EXCEPT ![p] = "killed"]
    /\ state' = [state EXCEPT ![p] = <<>>]
    /\ data' = [data EXCEPT ![p] = NoData]
    /\ UNCHANGED <<disk, tmpdir, clock, ncalls, call, tmp_path, result, pre,
                   stale, renames, inv, writes>>

\* the steps of a process that has been started
Step(p) ==
    \/ Mutate(p)
    \/ CreateTmp(p)
    \/ WriteTmp(p)
    \/ Rename(p)
    \/ Return(p)
    \/ Kill(p)

\* independent callers: any process may start an editor at any time
Next ==
    \E p \in Procs :
        \/ \E c \in CallSet : Invoke(p, c)
        \/ Step(p)

Spec == Init /\ [][Next]_vars

\* one caller, one invocation at a time, every call of SeqCalls
NextSeq ==
    \/ \E c \in SeqCalls : Invoke(1, c)
    \/ Step(1)

SpecSeq == Init /\ [][NextSeq]_vars

\* ------------------------------------------- field edits, one at a time
\* a project whose assumption has not been graded: certainty and risk null
UngradedDoc ==
    Put(ValidDoc, "assumptions",
        << Put(Put(Assumption1, "certainty", None), "risk", None) >>)

\* currentstate.json before the first field edit
EditFiles ==
    { File(FileText(ValidDoc)),
      File(FileText(UngradedDoc)),
      File(FileText(BareDoc)) }

\* partial updates, list updates with and without their flags, a creation,
\* every phase transition, and one addition to each append-only list
EditCalls ==
    { [tool |-> US, id |-> "s1", role |-> "lead"],
      [tool |-> US, id |-> "s1", needs |-> <<"b">>, append_needs |-> TRUE],
      [tool |-> US, id |-> "s1", needs |-> <<"b">>, append_needs |-> FALSE],
      [tool |-> US, id |-> "s1", pain_points |-> <<"p">>,
       append_pain_points |-> TRUE],
      [tool |-> US, id |-> "s1", pain_points |-> <<"q">>,
       append_needs |-> TRUE],
      [tool |-> US, id |-> "s1", notes_links |-> <<"n">>,
       append_notes |-> TRUE],
      [tool |-> US, id |-> "s2", name |-> "Ops", type |-> "individual"],
      [tool |-> US, id |-> "s2", name |-> "Ops"],
      [tool |-> GA, id |-> "a1", validation_plan |-> "survey"],
      [tool |-> GA, id |-> "a1", status |-> "validating"],
      [tool |-> GA, id |-> "a1", certainty |-> "high"],
      [tool |-> GA, id |-> "a1", certainty |-> "high", risk |-> "low"],
      [tool |-> GA, id |-> "a9", certainty |-> "high"],
      [tool |-> GI, id |-> "d1", impact |-> "high", feasibility |-> "low"],
      [tool |-> GI, id |-> "d1", prototype_links |-> <<"l1">>,
       append_prototype_links |-> TRUE],
      [tool |-> GI, id |-> "d1", prototype_links |-> <<"l2">>,
       append_prototype_links |-> FALSE],
      [tool |-> GI, id |-> "d9", idea_doc_link |-> "ideas/d9.md"],
      [tool |-> AI, id |-> "i2", title |-> "pattern",
       description |-> "all said z", confidence |-> "high"],
      [tool |-> RP, id |-> "p1", date |-> "2024-01-15",
       audience |-> <<"lt">>, phase |-> "define"] }
    \cup { [tool |-> UP, new_phase |-> q] : q \in valid_phases }

InitEdit ==
    /\ disk \in EditFiles
    /\ tmpdir = <<>>
    /\ clock = 1
    /\ ncalls = 0
    /\ pc = [p \in Procs |-> "idle"]
    /\ call = [p \in Procs |-> NoCall]
    /\ state = [p \in Procs |-> <<>>]
    /\ data = [p \in Procs |-> NoData]
    /\ tmp_path = [p \in Procs |-> 0]
    /\ result = [p \in Procs |-> NoResult]
    /\ pre = [p \in Procs |-> NoFile]
    /\ stale = [p \in Procs |-> FALSE]
    /\ renames = [p \in Procs |-> 0]
    /\ inv = [p \in Procs |-> 0]
    /\ writes = <<>>

\* one caller, one invocation at a time, every call of EditCalls
NextEdit ==
    \/ \E c \in EditCalls : Invoke(1, c)
    \/ Step(1)

SpecEdit == InitEdit /\ [][NextEdit]_vars

\* ==================================================================
\* Properties
\* ==================================================================
\* the document an invocation loaded
Loaded(p) == json_load(pre[p].text).value

\* what a reader of currentstate.json gets now
OnDisk == json_load(disk.text).value

Succeeded(p) == pc[p] = "done" /\ result[p].status = "success"
Failed(p) == pc[p] = "done" /\ result[p].status = "error"

\* the post-mutation documents M(D) of call c on document D, one for each
\* time the clock may show
Edited(D, c) ==
    { apply_edit(D, c, now).state :
        now \in {n \in 1..MaxClock : apply_edit(D, c, n).status = "success"} }

\* C1: while an editor runs and no other editor writes, a reader of
\* currentstate.json gets the whole document the editor loaded or the whole
\* post-mutation document, the latter after the editor's one rename; once
\* an editor has written, the file is always a complete document.
C1_ReaderSeesOldOrNew ==
    /\ Len(writes) > 0 => disk.exists /\ json_load(disk.text).ok
    /\ \A p \in Procs :
          pc[p] # "idle" /\ ~stale[p] =>
             /\ renames[p] <= 1
             /\ renames[p] = 0 => disk = pre[p]
             /\ renames[p] = 1 =>
                   /\ json_load(disk.text).ok
                   /\ OnDisk \in Edited(Loaded(p), call[p])

\* an editor is part-way through its temporary file, which does not parse,
\* and currentstate.json is still the document it loaded
C1_Witness ==
    \E p \in Procs :
        /\ pc[p] = "write"
        /\ tmpdir[tmp_path[p]] # <<>>
        /\ ~json_load(tmpdir[tmp_path[p]]).ok
        /\ json_load(disk.text).ok
        /\ disk = pre[p]

\* C2: an editor killed before its rename leaves currentstate.json exactly
\* as it was when the editor loaded it.
C2_KilledBeforeRename ==
    \A p \in Procs :
        pc[p] = "killed" /\ renames[p] = 0 /\ ~stale[p] => disk = pre[p]

\* killed part-way through the temporary file
C2_Witness ==
    \E p \in Procs :
        /\ pc[p] = "killed"
        /\ renames[p] = 0
        /\ tmp_path[p] \in DOMAIN tmpdir
        /\ tmpdir[tmp_path[p]] # <<>>
        /\ ~json_load(tmpdir[tmp_path[p]]).ok
        /\ json_load(pre[p].text).ok

\* the latest rename onto currentstate.json is this invocation's
LastWriter(p) ==
    /\ renames[p] = 1
    /\ writes # <<>>
    /\ writes[Len(writes)].inv = inv[p]

\* the list has an item with this id
HasId(doc, key, id) ==
    /\ Has(doc, key)
    /\ \E i \in 1..Len(Get(doc, key)) :
          Has(Get(doc, key)[i], "id") /\ Get(Get(doc, key)[i], "id") = id

\* C3: when an invocation renames after another one has renamed since it
\* loaded, and returns success, the document on disk is its own change
\* applied to the document it loaded: the change renamed in between is in
\* the file only if the later invocation made it too.
C3_LaterRenameOverwrites ==
    \A q \in Procs :
        Succeeded(q) /\ stale[q] /\ LastWriter(q) =>
            /\ json_load(disk.text).ok
            /\ OnDisk \in Edited(Loaded(q), call[q])

\* both invocations loaded before either renamed, both returned success,
\* and the insight that the first one added is not in the file
C3_Witness ==
    \E p, q \in Procs :
        /\ p # q
        /\ Succeeded(p) /\ Succeeded(q)
        /\ stale[p] /\ stale[q]
        /\ LastWriter(q)
        /\ call[p].tool = AI
        /\ Has(OnDisk, "insights")
        /\ ~HasId(OnDisk, "insights", call[p].id)

\* C4: an invocation that returns an error envelope has renamed nothing, and
\* unless another invocation wrote meanwhile currentstate.json is what it was
\* when the invocation started, updated_at included.
C4_ErrorPersistsNothing ==
    \A p \in Procs :
        Failed(p) => /\ renames[p] = 0
                     /\ ~stale[p] => disk = pre[p]

\* the rename itself failed: the finished temporary file is there, the
\* document is the old one
C4_Witness ==
    \E p \in Procs :
        /\ Failed(p)
        /\ result[p].error = "Exception"
        /\ tmp_path[p] \in DOMAIN tmpdir
        /\ json_load(tmpdir[tmp_path[p]]).ok
        /\ tmpdir[tmp_path[p]] # disk.text
        /\ disk = pre[p]

EntityLists == {"stakeholders", "assumptions", "ideas", "insights", "playbacks"}

\* the list of the document, empty when the key is absent
ListOf(doc, key) == IF Has(doc, key) THEN Get(doc, key) ELSE <<>>

\* the data model: required keys of every entity, enum-valued keys within
\* their sets (certainty and risk may be null)
FullyValid(doc) ==
    /\ \A field \in required_fields : Has(doc, field)
    /\ Get(doc, "phase") \in valid_phases
    /\ items_have(ListOf(doc, "stakeholders"), {"id", "name", "type"})
    /\ items_enum(ListOf(doc, "stakeholders"), "type", stakeholder_types)
    /\ items_have(ListOf(doc, "assumptions"), {"id", "description"})
    /\ items_enum(ListOf(doc, "assumptions"), "certainty", grades \cup {None})
    /\ items_enum(ListOf(doc, "assumptions"), "risk", grades \cup {None})
    /\ items_enum(ListOf(doc, "assumptions"), "status", assumption_statuses)
    /\ items_have(ListOf(doc, "ideas"), {"id", "title", "status"})
    /\ items_enum(ListOf(doc, "ideas"), "impact", grades)
    /\ items_enum(ListOf(doc, "ideas"), "feasibility", grades)
    /\ items_enum(ListOf(doc, "ideas"), "status", idea_statuses)
    /\ items_have(ListOf(doc, "insights"), {"id", "title", "description"})
    /\ items_enum(ListOf(doc, "insights"), "confidence", grades)
    /\ items_have(ListOf(doc, "playbacks"), {"id", "date", "audience"})
    /\ items_enum(ListOf(doc, "playbacks"), "phase", valid_phases)

\* C5: every editor validates all five lists: an editor that loaded a
\* document with an invalid entity in any list returns an error and renames
\* nothing, so every document an editor has written is valid throughout.
C5_EveryListValidated ==
    /\ \A p \in Procs :
          pc[p] = "done" /\ json_load(pre[p].text).ok
                         /\ ~FullyValid(Loaded(p)) => Failed(p)
    /\ Len(writes) > 0 => FullyValid(OnDisk)

\* add_insight loaded a document whose idea has a status outside the set,
\* returned success, and the file it wrote still has that idea
C5_Witness ==
    \E p \in Procs :
        /\ Succeeded(p)
        /\ call[p].tool = AI
        /\ ~items_enum(ListOf(Loaded(p), "ideas"), "status", idea_statuses)
        /\ LastWriter(p)
        /\ ~items_enum(ListOf(OnDisk, "ideas"), "status", idea_statuses)

\* no two items of the list have the same id
UniqueIds(list) ==
    \A i, j \in 1..Len(list) :
        (i # j /\ Has(list[i], "id") /\ Has(list[j], "id"))
            => Get(list[i], "id") # Get(list[j], "id")

\* C6: every document that is on disk has unique ids within each of its
\* five lists, whatever the invocations and however they overlap.
C6_IdsStayUnique ==
    json_load(disk.text).ok =>
        \A key \in EntityLists : UniqueIds(ListOf(OnDisk, key))

\* two overlapping add_insight calls with the same new id both succeeded
C6_Witness ==
    \E p, q \in Procs :
        /\ p # q
        /\ Succeeded(p) /\ Succeeded(q)
        /\ stale[p] /\ stale[q]
        /\ call[p].tool = AI
        /\ call[q] = call[p]
        /\ HasId(OnDisk, "insights", call[p].id)

\* C7 as stated: over all renames, overlapping invocations included, the
\* updated_at written never goes down.
C7_UpdatedAtMonotonic ==
    \A i \in 2..Len(writes) :
        writes[i].updated_at >= writes[i - 1].updated_at

\* C7 amended: a rename by an invocation that loaded the document after the
\* previous rename writes an updated_at that is not below the previous one.
C7_MonotonicWithoutOverlap ==
    \A i \in 2..Len(writes) :
        ~writes[i].stale => writes[i].updated_at >= writes[i - 1].updated_at

\* two renames, the second by an invocation that started after the first,
\* at a later clock value
C7_Witness ==
    /\ Len(writes) = 2
    /\ ~writes[2].stale
    /\ writes[2].updated_at > writes[1].updated_at

\* C8: every document an editor has written has a phase among the five:
\* an editor that keeps the loaded phase refuses a document whose phase is
\* outside the set, and update_phase refuses a target outside the set.
C8_PersistedPhaseValid ==
    /\ Len(writes) > 0 =>
          /\ json_load(disk.text).ok
          /\ Has(OnDisk, "phase")
          /\ Get(OnDisk, "phase") \in valid_phases
    /\ \A p \in Procs :
          pc[p] = "done" =>
             /\ ( /\ call[p].tool # UP
                  /\ json_load(pre[p].text).ok
                  /\ Get(Loaded(p), "phase") \notin valid_phases ) => Failed(p)
             /\ (call[p].tool = UP /\ call[p].new_phase \notin valid_phases)
                   => Failed(p)

\* an editor loaded a document with a phase outside the set and refused it
C8_Witness ==
    \E p \in Procs :
        /\ Failed(p)
        /\ result[p].error = "SchemaViolation"
        /\ json_load(pre[p].text).ok
        /\ Get(Loaded(p), "phase") \notin valid_phases
        /\ disk = pre[p]

\* C9: add_insight with an id that is in insights, and record_playback with
\* an id that is in playbacks, return the AlreadyExists error whatever else
\* is passed, and the file stays as it was.
C9_CollisionRejected ==
    \A p \in Procs :
        ( /\ pc[p] = "done"
          /\ json_load(pre[p].text).ok
          /\ \/ call[p].tool = AI /\ HasId(Loaded(p), "insights", call[p].id)
             \/ call[p].tool = RP /\ HasId(Loaded(p), "playbacks", call[p].id) )
        => /\ Failed(p)
           /\ result[p].error = "AlreadyExists"
           /\ renames[p] = 0
           /\ disk = pre[p]

\* the colliding call also carried a confidence outside the enum
C9_Witness ==
    \E p \in Procs :
        /\ Failed(p)
        /\ result[p].error = "AlreadyExists"
        /\ call[p].tool = AI
        /\ Given(call[p], "confidence")
        /\ call[p].confidence \notin grades
        /\ HasId(OnDisk, "insights", call[p].id)

\* the call passes a value outside the closed set of an enum-typed argument
BadEnum(c) ==
    \/ c.tool = US /\ Given(c, "type") /\ c.type \notin stakeholder_types
    \/ c.tool = GA /\ Given(c, "certainty") /\ c.certainty \notin grades
    \/ c.tool = GA /\ Given(c, "risk") /\ c.risk \notin grades
    \/ c.tool = GA /\ Given(c, "status") /\ c.status \notin assumption_statuses
    \/ c.tool = GI /\ Given(c, "impact") /\ c.impact \notin grades
    \/ c.tool = GI /\ Given(c, "feasibility") /\ c.feasibility \notin grades
    \/ c.tool = GI /\ Given(c, "status") /\ c.status \notin idea_statuses
    \/ c.tool = AI /\ Given(c, "confidence") /\ c.confidence \notin grades
    \/ c.tool = RP /\ Given(c, "phase") /\ c.phase \notin valid_phases
    \/ c.tool = UP /\ c.new_phase \notin valid_phases

\* C10: a call with an enum argument outside its set returns an error, and
\* the editor creates no temporary file and renames nothing.
C10_BadEnumWritesNothing ==
    \A p \in Procs :
        pc[p] = "done" /\ BadEnum(call[p]) =>
            /\ Failed(p)
            /\ tmp_path[p] = 0
            /\ renames[p] = 0
            /\ disk = pre[p]

\* the refused call had already changed the document in memory
C10_Witness ==
    \E p \in Procs :
        /\ Failed(p)
        /\ BadEnum(call[p])
        /\ result[p].error = "InvalidValue"
        /\ json_load(pre[p].text).ok
        /\ state[p] # <<>>
        /\ state[p] # Loaded(p)
        /\ disk = pre[p]

\* the list that an updating editor works on
ListKey(tool) ==
    CASE tool = US -> "stakeholders"
      [] tool = GA -> "assumptions"
      [] tool = GI -> "ideas"
      [] tool = AI -> "insights"
      [] tool = RP -> "playbacks"

\* the keys of an object
Keys(d) == { d[i][1] : i \in 1..Len(d) }

\* the two objects agree on the key: both lack it, or both hold one value
SameAt(d, e, k) ==
    /\ Has(d, k) <=> Has(e, k)
    /\ Has(d, k) => Get(d, k) = Get(e, k)

\* the invocation updated an entity that the loaded document had
Updated(p) ==
    /\ Succeeded(p)
    /\ LastWriter(p)
    /\ call[p].tool \in {US, GA, GI}
    /\ HasId(Loaded(p), ListKey(call[p].tool), call[p].id)

\* the entity with the id in the document's list
Entity(doc, key, id) == Get(doc, key)[find_by_id(Get(doc, key), id, 1)]

\* C11: a successful update of an existing stakeholder, assumption or idea
\* leaves every top-level member but updated_at and the list, every other
\* item of the list, and every key of the entity that the call does not
\* supply, as they were in the loaded document.
C11_OnlySuppliedFieldsChange ==
    \A p \in Procs :
        Updated(p) =>
            LET D == Loaded(p)
                N == OnDisk
                key == ListKey(call[p].tool)
                i == find_by_id(Get(D, key), call[p].id, 1)
                old == Get(D, key)[i]
                new == Get(N, key)[i]
            IN  /\ Len(N) = Len(D)
                /\ \A j \in 1..Len(D) :
                      /\ N[j][1] = D[j][1]
                      /\ D[j][1] \notin {"updated_at", key} => N[j] = D[j]
                /\ Len(Get(N, key)) = Len(Get(D, key))
                /\ \A j \in 1..Len(Get(D, key)) :
                      j # i => Get(N, key)[j] = Get(D, key)[j]
                /\ Get(new, "id") = call[p].id
                /\ \A k \in (Keys(old) \cup Keys(new)) \ DOMAIN call[p] :
                      SameAt(old, new, k)

\* only the role of a stakeholder was supplied: the role is in the file and
\* the stakeholder's needs are the loaded ones
C11_Witness ==
    \E p \in Procs :
        /\ Updated(p)
        /\ call[p].tool = US
        /\ DOMAIN call[p] = {"tool", "id", "role"}
        /\ Get(Entity(OnDisk, "stakeholders", call[p].id), "role") = call[p].role
        /\ Get(Entity(Loaded(p), "stakeholders", call[p].id), "needs") # <<>>
        /\ Len(Get(Loaded(p), "stakeholders")) = 2

\* the list fields of an editor, each with its append flag
ListArgs(tool) ==
    CASE tool = US -> { <<"needs", "append_needs">>,
                        <<"pain_points", "append_pain_points">>,
                        <<"notes_links", "append_notes">> }
      [] tool = GI -> { <<"prototype_links", "append_prototype_links">> }
      [] OTHER -> {}

\* C12: a supplied list replaces the entity's list when its flag is false,
\* follows the entity's list when its flag is true, and is the whole value
\* when the flag is true and the entity had no such list; the flags of the
\* other fields play no part.
C12_AppendOrReplace ==
    \A p \in Procs :
        Updated(p) =>
            LET c == call[p]
                key == ListKey(c.tool)
                old == Entity(Loaded(p), key, c.id)
                new == Entity(OnDisk, key, c.id)
            IN  \A fa \in ListArgs(c.tool) :
                    Given(c, fa[1]) =>
                        /\ Has(new, fa[1])
                        /\ Get(new, fa[1]) =
                              IF /\ Given(c, fa[2]) /\ c[fa[2]]
                                 /\ Has(old, fa[1])
                              THEN Get(old, fa[1]) \o c[fa[1]]
                              ELSE c[fa[1]]

\* needs ["a"] updated with ["b"] and append_needs: ["a", "b"], on a
\* stakeholder that an earlier call gave pain_points
C12_Witness ==
    \E p \in Procs :
        /\ Updated(p)
        /\ call[p].tool = US
        /\ Given(call[p], "needs")
        /\ Given(call[p], "append_needs") /\ call[p].append_needs
        /\ Get(Entity(Loaded(p), "stakeholders", "s1"), "needs") = <<"a">>
        /\ Get(Entity(OnDisk, "stakeholders", "s1"), "needs") = <<"a", "b">>
        /\ Has(Entity(OnDisk, "stakeholders", "s1"), "pain_points")

\* C13: update_stakeholder with an id that the list does not have appends
\* one stakeholder with that id, name and type after the loaded ones when
\* name and a valid type are supplied (short of an I/O failure), and returns
\* an error that leaves the file alone when name or type is missing; with an
\* id that the list has, the list keeps its length.
C13_CreateOrUpdateStakeholder ==
    \A p \in Procs :
        (pc[p] = "done" /\ call[p].tool = US /\ json_load(pre[p].text).ok) =>
            LET c == call[p]
                L == ListOf(Loaded(p), "stakeholders")
                present == HasId(Loaded(p), "stakeholders", c.id)
                N == ListOf(OnDisk, "stakeholders")
            IN  /\ (~present /\ (Falsy(c, "name") \/ Falsy(c, "type"))) =>
                      /\ Failed(p)
                      /\ result[p].error = "RequiredForNew"
                      /\ renames[p] = 0
                      /\ disk = pre[p]
                /\ ( /\ ~present /\ ~Falsy(c, "name") /\ ~Falsy(c, "type")
                     /\ c.type \in stakeholder_types ) =>
                      /\ Failed(p) => result[p].error = "Exception"
                      /\ Succeeded(p) =>
                            /\ Len(N) = Len(L) + 1
                            /\ SubSeq(N, 1, Len(L)) = L
                            /\ Get(N[Len(N)], "id") = c.id
                            /\ Get(N[Len(N)], "name") = c.name
                            /\ Get(N[Len(N)], "type") = c.type
                /\ (present /\ Succeeded(p)) => Len(N) = Len(L)

\* a stakeholder was created after the one the document had
C13_Witness ==
    \E p \in Procs :
        /\ Succeeded(p)
        /\ call[p].tool = US
        /\ ~HasId(Loaded(p), "stakeholders", call[p].id)
        /\ Len(ListOf(Loaded(p), "stakeholders")) = 1
        /\ Len(ListOf(OnDisk, "stakeholders")) = 2
        /\ Get(ListOf(OnDisk, "stakeholders")[2], "id") = call[p].id

\* the invocation graded an id that the loaded document does not have
GradesUnknownId(p) ==
    /\ pc[p] = "done"
    /\ call[p].tool \in {GA, GI}
    /\ json_load(pre[p].text).ok
    /\ ~HasId(Loaded(p), ListKey(call[p].tool), call[p].id)

\* C14: grade_assumption and grade_idea with an id that their list does not
\* have, or on a document without the list, return the NotFound error and
\* leave the file as it was; no step of any editor changes the number of
\* assumptions or of ideas in the file.
C14_GradersNeverCreate ==
    /\ [](\A p \in Procs :
            GradesUnknownId(p) =>
                /\ Failed(p)
                /\ result[p].error = "NotFound"
                /\ renames[p] = 0
                /\ disk = pre[p])
    /\ [][ ( /\ disk' # disk
             /\ json_load(disk.text).ok
             /\ json_load(disk'.text).ok ) =>
              \A key \in {"assumptions", "ideas"} :
                  Len(ListOf(json_load(disk'.text).value, key))
                      = Len(ListOf(json_load(disk.text).value, key)) ]_vars

\* grade_idea was refused on a document that has ideas, none with the id,
\* after another editor had written the document
C14_Witness ==
    \E p \in Procs :
        /\ GradesUnknownId(p)
        /\ call[p].tool = GI
        /\ Len(ListOf(Loaded(p), "ideas")) = 1
        /\ Len(writes) = 1
        /\ Len(ListOf(OnDisk, "ideas")) = 1

\* C15: an editor that loaded a document valid under the data model (an
\* ungraded assumption has null certainty and risk) and was called with
\* values that pass its checks does not return the schema-validation error.
C15_NoSchemaErrorOnValidDocument ==
    \A p \in Procs :
        ( /\ pc[p] = "done"
          /\ json_load(pre[p].text).ok
          /\ FullyValid(Loaded(p)) )
        => result[p].error # "SchemaViolation"

\* grade_assumption supplying only validation_plan was refused by its own
\* validation on a valid document whose assumption is not graded yet
C15_Witness ==
    \E p \in Procs :
        /\ Failed(p)
        /\ result[p].error = "SchemaViolation"
        /\ call[p].tool = GA
        /\ DOMAIN call[p] = {"tool", "id", "validation_plan"}
        /\ FullyValid(Loaded(p))
        /\ Get(Entity(Loaded(p), "assumptions", call[p].id), "certainty") = None
        /\ disk = pre[p]

\* the member of `data` that carries the entity
EntityKey(tool) ==
    CASE tool = US -> "stakeholder"
      [] tool = GA -> "assumption"
      [] tool = GI -> "idea"
      [] tool = AI -> "insight"
      [] tool = RP -> "playback"

\* C16: the step that changes the document in memory stamps it, and the
\* data to return, with the clock of that step; after a successful
\* invocation the file's updated_at is the one in the returned data, and
\* the returned entity (for update_phase, the new phase) is the one in the
\* file.
C16_EnvelopeMatchesFile ==
    /\ [][ \A p \in Procs :
              (pc[p] = "mutate" /\ pc'[p] = "create") =>
                  /\ clock' >= clock
                  /\ Get(state'[p], "updated_at") = clock'
                  /\ Get(data'[p], "updated_at") = clock' ]_vars
    /\ [](\A p \in Procs :
            (Succeeded(p) /\ LastWriter(p)) =>
                LET c == call[p]
                    d == result[p].data
                IN  /\ d = data[p]
                    /\ Get(OnDisk, "updated_at") = Get(d, "updated_at")
                    /\ Get(OnDisk, "updated_at") = Get(state[p], "updated_at")
                    /\ c.tool = UP =>
                          Get(OnDisk, "phase") = Get(d, "new_phase")
                    /\ c.tool # UP =>
                          Entity(OnDisk, ListKey(c.tool), c.id)
                              = Get(d, EntityKey(c.tool)))

\* a stakeholder created at clock 2: the file and the envelope both say 2
C16_Witness ==
    \E p \in Procs :
        /\ Succeeded(p)
        /\ LastWriter(p)
        /\ call[p].tool = US
        /\ ~HasId(Loaded(p), "stakeholders", call[p].id)
        /\ clock = 2
        /\ Get(OnDisk, "updated_at") = 2
        /\ Get(result[p].data, "updated_at") = 2
        /\ Get(Loaded(p), "updated_at") < 2

\* the invocation asked update_phase for a phase of the enum on a document
\* whose phase is of the enum
Transition(p) ==
    /\ pc[p] = "done"
    /\ call[p].tool = UP
    /\ call[p].new_phase \in valid_phases
    /\ json_load(pre[p].text).ok
    /\ Get(Loaded(p), "phase") \in valid_phases

\* C17: update_phase from any phase of the enum to any phase of the enum
\* fails only on an I/O failure; otherwise the file has the target phase and
\* the data returned names the loaded phase as old_phase and the target as
\* new_phase.
C17_AnyTransitionAccepted ==
    \A p \in Procs :
        Transition(p) =>
            /\ Failed(p) => result[p].error = "Exception"
            /\ Succeeded(p) =>
                  /\ Get(OnDisk, "phase") = call[p].new_phase
                  /\ Get(result[p].data, "old_phase") = Get(Loaded(p), "phase")
                  /\ Get(result[p].data, "new_phase") = call[p].new_phase

\* a document with no entity lists went from define to iterate, and then
\* this invocation took it back to empathize
C17_Witness ==
    \E p \in Procs :
        /\ Transition(p)
        /\ Succeeded(p)
        /\ Len(Loaded(p)) = 4
        /\ Get(Loaded(p), "phase") = "iterate"
        /\ Get(OnDisk, "phase") = "empathize"
        /\ Len(writes) = 2

\* C18: after a successful call of any editor but update_phase the file's
\* phase is the phase of the loaded document; a step changes the phase of
\* the file only when it is the rename of an update_phase.
C18_PhaseMovesOnlyByUpdatePhase ==
    /\ [](\A p \in Procs :
            (Succeeded(p) /\ LastWriter(p) /\ call[p].tool # UP) =>
                Get(OnDisk, "phase") = Get(Loaded(p), "phase"))
    /\ [][ ( /\ disk' # disk
             /\ json_load(disk.text).ok
             /\ json_load(disk'.text).ok
             /\ Get(json_load(disk'.text).value, "phase")
                   # Get(json_load(disk.text).value, "phase") ) =>
              \E p \in Procs :
                  /\ pc[p] = "rename"
                  /\ pc'[p] = "renamed"
                  /\ call[p].tool = UP ]_vars

\* a playback of the define phase was recorded while the project was, and
\* stayed, in the empathize phase
C18_Witness ==
    \E p \in Procs :
        /\ Succeeded(p)
        /\ LastWriter(p)
        /\ call[p].tool = RP
        /\ Get(Entity(OnDisk, "playbacks", call[p].id), "phase") = "define"
        /\ Get(Loaded(p), "phase") = "empathize"
        /\ Get(OnDisk, "phase") = "empathize"

\* C19: no step changes the project_name or the created_at of the file,
\* and what an invocation wrote has those of the document it loaded.
C19_NameAndCreationKept ==
    /\ [][ ( /\ disk' # disk
             /\ json_load(disk.text).ok
             /\ json_load(disk'.text).ok ) =>
              \A k \in {"project_name", "created_at"} :
                  SameAt(json_load(disk.text).value,
                         json_load(disk'.text).value, k) ]_vars
    /\ [](\A p \in Procs :
            LastWriter(p) =>
                \A k \in {"project_name", "created_at"} :
                    SameAt(Loaded(p), OnDisk, k))

\* two editors have written, the second one update_phase at a later clock
\* value: updated_at moved, created_at did not
C19_Witness ==
    \E p \in Procs :
        /\ Succeeded(p)
        /\ LastWriter(p)
        /\ call[p].tool = UP
        /\ Len(writes) = 2
        /\ Get(OnDisk, "updated_at") = 2
        /\ Get(OnDisk, "created_at") = 0
        /\ Get(OnDisk, "project_name") = "demo"

\* the ids of a list, in its order
Ids(list) == [i \in 1..Len(list) |-> Get(list[i], "id")]

\* a is the beginning of b
Prefix(a, b) == Len(a) <= Len(b) /\ SubSeq(b, 1, Len(a)) = a

\* C20: with one invocation at a time, every step leaves in each of the five
\* lists of the file the ids it had, in the order they had, and puts new ids
\* after them.
C20_EntitiesKeptInOrder ==
    [][ ( /\ disk' # disk
          /\ json_load(disk.text).ok
          /\ json_load(disk'.text).ok ) =>
           LET before == json_load(disk.text).value
               after == json_load(disk'.text).value
           IN  \A key \in EntityLists :
                   Prefix(Ids(ListOf(before, key)), Ids(ListOf(after, key))) ]_vars

\* a stakeholder was created, then the older one was updated: both are in
\* the file, the older one first
C20_Witness ==
    \E p \in Procs :
        /\ Updated(p)
        /\ call[p].tool = US
        /\ Len(writes) = 2
        /\ Ids(ListOf(OnDisk, "stakeholders")) = <<"s1", "s2">>
        /\ call[p].id = "s1"
        /\ Entity(OnDisk, "stakeholders", "s1")
              # Entity(Loaded(p), "stakeholders", "s1")

\* ==================================================================
\* The phase gate evaluator: check_completion.py
\* ==================================================================
\* `d.get(k)`: the value, None when the key is absent
get(d, k) == IF Has(d, k) THEN Get(d, k) ELSE None

\* `d.get(k, [])` for a key that holds a list
get_list(d, k) == IF Has(d, k) THEN Get(d, k) ELSE <<>>

\* `not e.get(k)` for a key that holds a list: absent or empty
no_list(e, k) == get_list(e, k) = <<>>

\* `len([x for x in list if ...])`, given the set of indices that pass
count(indices) == Cardinality(indices)

\* one reason, or none: the message and what it interpolates
reason_if(cond, kind, detail) ==
    IF cond THEN << <<kind, detail>> >> ELSE <<>>

\* what a checker returns: (len(reasons) == 0, reasons)
verdict(reasons) == [complete |-> Len(reasons) = 0, reasons |-> reasons]

\* stakeholder_reasons that looks at the first stakeholder only
stakeholder_reasons_first(stakeholders) ==
    IF stakeholders = <<>> THEN <<>>
    ELSE LET sh == Head(stakeholders)
         IN  reason_if(no_list(sh, "notes_links"),
                       "needs research notes", get(sh, "name"))
             \o reason_if(no_list(sh, "needs") /\ no_list(sh, "pain_points"),
                          "needs documented needs or pain points",
                          get(sh, "name"))

\* the body of `for sh in stakeholders` in check_empathize_complete
RECURSIVE stakeholder_reasons(_)
stakeholder_reasons(stakeholders) ==
    IF stakeholders = <<>> THEN <<>>
    ELSE LET sh == Head(stakeholders)
         IN  reason_if(no_list(sh, "notes_links"),
                       "needs research notes", get(sh, "name"))
             \o reason_if(no_list(sh, "needs") /\ no_list(sh, "pain_points"),
                          "needs documented needs or pain points",
                          get(sh, "name"))
             \o stakeholder_reasons(Tail(stakeholders))

check_empathize_complete(st) ==
    LET stakeholders == get_list(st, "stakeholders")
        insights == get_list(st, "insights")
    IN  verdict(
            reason_if(Len(stakeholders) < 2,
                      "Need at least 2 stakeholder groups defined", "")
            \o stakeholder_reasons(stakeholders)
            \o reason_if(Len(insights) < 3,
                         "Need at least 3 synthesized insights",
                         ToString(Len(insights))))

assumption_ungraded(a) == get(a, "certainty") = None \/ get(a, "risk") = None

\* assumption_high_risk that takes every risk but low for high
assumption_not_low_risk(a) == get(a, "risk") # "low"

assumption_high_risk(a) == get(a, "risk") = "high" /\ get(a, "certainty") = "low"

check_define_complete(st) ==
    LET insights == get_list(st, "insights")
        assumptions == get_list(st, "assumptions")
        ungraded ==
            count({i \in 1..Len(assumptions) :
                      assumption_ungraded(assumptions[i])})
        high_risk ==
            count({i \in 1..Len(assumptions) :
                      assumption_high_risk(assumptions[i])})
    IN  verdict(
            reason_if(Len(insights) < 3,
                      "Need at least 3 validated insights",
                      ToString(Len(insights)))
            \o (IF assumptions = <<>>
                THEN reason_if(TRUE, "No assumptions identified", "")
                ELSE reason_if(ungraded > 0,
                               "assumptions need certainty/risk grades",
                               ToString(ungraded))
                     \o reason_if(high_risk > 0,
                                  "high-risk assumptions need validation plan",
                                  ToString(high_risk))))

idea_ungraded(idea) ==
    get(idea, "impact_grade") = None \/ get(idea, "feasibility_grade") = None

idea_high_impact(idea) == get(idea, "impact_grade") \in {"high", "medium"}

check_ideate_complete(st) ==
    LET ideas == get_list(st, "ideas")
        ungraded ==
            count({i \in 1..Len(ideas) :
                      idea_ungraded(ideas[i])})
        high_impact ==
            count({i \in 1..Len(ideas) :
                      idea_high_impact(ideas[i])})
    IN  verdict(
            reason_if(Len(ideas) < 3,
                      "Need at least 3 solution ideas", ToString(Len(ideas)))
            \o (IF ideas = <<>> THEN <<>>
                ELSE reason_if(ungraded > 0,
                               "ideas need impact/feasibility grades",
                               ToString(ungraded))
                     \o reason_if(high_impact < 2,
                                  "Need at least 2 ideas with medium/high impact",
                                  "")))

idea_prototyped(idea) == get(idea, "status") = "prototyping"

check_prototype_complete(st) ==
    LET ideas == get_list(st, "ideas")
        prototyped ==
            count({i \in 1..Len(ideas) :
                      idea_prototyped(ideas[i])})
    IN  verdict(reason_if(prototyped = 0,
                          "At least one idea must have a prototype", ""))

idea_validated(idea) == get(idea, "status") \in {"validated", "implemented"}

check_iterate_complete(st) ==
    LET ideas == get_list(st, "ideas")
        validated ==
            count({i \in 1..Len(ideas) :
                      idea_validated(ideas[i])})
    IN  verdict(reason_if(validated = 0,
                          "At least one idea must be validated through iteration",
                          ""))

\* checkers that picks the checker of the document's own phase
checkers_of_current_phase(phase, st) ==
    CASE get(st, "phase") = "empathize" -> check_empathize_complete(st)
      [] get(st, "phase") = "define" -> check_define_complete(st)
      [] get(st, "phase") = "ideate" -> check_ideate_complete(st)
      [] get(st, "phase") = "prototype" -> check_prototype_complete(st)
      [] get(st, "phase") = "iterate" -> check_iterate_complete(st)
      [] OTHER -> verdict(<<>>)

\* checkers[phase](state)
checkers(phase, st) ==
    CASE phase = "empathize" -> check_empathize_complete(st)
      [] phase = "define" -> check_define_complete(st)
      [] phase = "ideate" -> check_ideate_complete(st)
      [] phase = "prototype" -> check_prototype_complete(st)
      [] phase = "iterate" -> check_iterate_complete(st)

\* ------------------------------------------------ the evaluator's actions
CC == "check_completion"

\* --phase is a free string; without it the document's phase is evaluated
EvalArgs ==
    { [tool |-> CC] }
    \cup { [tool |-> CC, phase |-> q] : q \in valid_phases \cup {"launch"} }

\* the dictionary that main builds after a checker has run
evaluation(phase, st) ==
    << <<"phase", phase>>,
       <<"complete", checkers(phase, st).complete>>,
       <<"reasons", checkers(phase, st).reasons>>,
       <<"project", get(st, "project_name")>> >>

Evaluated(d) == [status |-> "evaluated", data |-> d, error |-> None]
Raised(kind) == [status |-> "error", data |-> NoData, error |-> kind]
Crashed(kind) == [status |-> "crashed", data |-> NoData, error |-> kind]

\* locale.getpreferredencoding(False): what open() decodes with when it is
\* given no encoding
Encodings == {"utf-8", "latin-1", "ascii"}

\* text outside ASCII among the strings of the documents, and what its
\* UTF-8 bytes read as in latin-1
NonAscii == {"Caf[e-acute]"}
latin1(s) == IF s = "Caf[e-acute]" THEN "Caf[A-tilde][copyright]" ELSE s

\* the file has a byte above 127: the editors write with ensure_ascii=False
\* (in the documents here project_name is the member that may hold such
\* text)
has_high_byte(text) ==
    \E i \in 1..Len(text) :
        /\ Len(text[i]) = 2
        /\ text[i][1] = "project_name"
        /\ text[i][2] \in NonAscii

\* the strings of a document written in UTF-8 and read in the encoding
decoded(doc, encoding) ==
    IF encoding = "utf-8" THEN doc
    ELSE [i \in 1..Len(doc) |->
             IF doc[i][1] = "project_name"
             THEN <<"project_name", latin1(doc[i][2])>>
             ELSE doc[i]]

\* load_state: open(state_file) in the locale's encoding, json.load
load_state(file, encoding) ==
    IF ~file.exists
    THEN [ok |-> FALSE, error |-> "FileNotFoundError", value |-> <<>>]
    ELSE IF encoding = "ascii" /\ has_high_byte(file.text)
    THEN [ok |-> FALSE, error |-> "UnicodeDecodeError", value |-> <<>>]
    ELSE IF ~json_load(file.text).ok
    THEN [ok |-> FALSE, error |-> "JSONDecodeError", value |-> <<>>]
    ELSE [ok |-> TRUE, error |-> None,
          value |-> decoded(json_load(file.text).value, encoding)]

\* the try block of main: load_state, the choice of the phase, the checker
evaluate(file, a, encoding) ==
    LET loaded == load_state(file, encoding)
        st == loaded.value
        phase == IF Given(a, "phase") THEN a.phase ELSE get(st, "phase")
    IN  IF ~loaded.ok THEN Raised(loaded.error)
        ELSE IF phase \notin valid_phases THEN Raised("ValueError")
        ELSE Evaluated(evaluation(phase, st))

\* Evaluate that stamps updated_at on the document it has evaluated
Evaluate_stamping(p, a) ==
    /\ \A q \in Procs : pc[q] \in Free
    /\ ncalls < MaxCalls
    /\ ncalls' = ncalls + 1
    /\ call' = [call EXCEPT ![p] = a]
    /\ data' = [data EXCEPT ![p] = NoData]
    /\ tmp_path' = [tmp_path EXCEPT ![p] = 0]
    /\ pre' = [pre EXCEPT ![p] = disk]
    /\ stale' = [stale EXCEPT ![p] = FALSE]
    /\ renames' = [renames EXCEPT ![p] = 0]
    /\ inv' = [inv EXCEPT ![p] = ncalls + 1]
    /\ pc' = [pc EXCEPT ![p] = "done"]
    /\ state' = [state EXCEPT ![p] = load_state(disk, "utf-8").value]
    /\ result' = [result EXCEPT ![p] = evaluate(disk, a, "utf-8")]
    /\ disk' = IF evaluate(disk, a, "utf-8").status = "evaluated"
               THEN File(FileText(Put(json_load(disk.text).value,
                                      "updated_at", clock)))
               ELSE disk
    /\ UNCHANGED <<tmpdir, clock, writes>>

\* The annotations of the checkers name `List`, which the module does not
\* import.  An interpreter that evaluates annotations when a function is
\* defined raises NameError while loading the script; one that evaluates
\* them lazily runs main.  The file is decoded in the locale's encoding.
Evaluate(p, a) ==
    /\ \A q \in Procs : pc[q] \in Free
    /\ ncalls < MaxCalls
    /\ ncalls' = ncalls + 1
    /\ call' = [call EXCEPT ![p] = a]
    /\ data' = [data EXCEPT ![p] = NoData]
    /\ tmp_path' = [tmp_path EXCEPT ![p] = 0]
    /\ pre' = [pre EXCEPT ![p] = disk]
    /\ stale' = [stale EXCEPT ![p] = FALSE]
    /\ renames' = [renames EXCEPT ![p] = 0]
    /\ inv' = [inv EXCEPT ![p] = ncalls + 1]
    /\ pc' = [pc EXCEPT ![p] = "done"]
    /\ \/ /\ result' = [result EXCEPT ![p] = Crashed("NameError")]
          /\ state' = [state EXCEPT ![p] = <<>>]
       \/ \E encoding \in Encodings :
             /\ result' = [result EXCEPT ![p] = evaluate(disk, a, encoding)]
             /\ state' = [state EXCEPT ![p] =
                              load_state(disk, encoding).value]
    /\ UNCHANGED <<disk, tmpdir, clock, writes>>

\* ------------------------------------------------ the command-line layer
\* the options each editor's parser requires besides --project
required_args(tool) ==
    CASE tool = US -> {"id"}
      [] tool = GA -> {"id"}
      [] tool = GI -> {"id"}
      [] tool = AI -> {"id", "title", "description"}
      [] tool = RP -> {"id", "date", "audience"}
      [] tool = UP -> {"new_phase"}

\* the options each editor's parser restricts with `choices`
arg_choices(tool) ==
    CASE tool = US -> [type |-> stakeholder_types]
      [] tool = GA -> [certainty |-> grades, risk |-> grades,
                       status |-> assumption_statuses]
      [] tool = GI -> [impact |-> grades, feasibility |-> grades,
                       status |-> idea_statuses]
      [] tool = AI -> [confidence |-> grades]
      [] tool = RP -> [phase |-> valid_phases]
      [] tool = UP -> [new_phase |-> valid_phases]

\* parser.parse_args(): TRUE when the arguments are accepted
parse_args(c) ==
    /\ \A k \in required_args(c.tool) : Given(c, k)
    /\ \A k \in DOMAIN arg_choices(c.tool) :
          Given(c, k) => c[k] \in arg_choices(c.tool)[k]

Rejected == [status |-> "usage", data |-> NoData, error |-> "SystemExit"]

\* parse_args refuses the command line: the editor function is not called
\* and no envelope is printed
Usage(p, c) ==
    /\ pc[p] \in Free
    /\ \A q \in Procs : q < p => pc[q] \notin Free
    /\ ncalls < MaxCalls
    /\ ~parse_args(c)
    /\ ncalls' = ncalls + 1
    /\ call' = [call EXCEPT ![p] = c]
    /\ data' = [data EXCEPT ![p] = NoData]
    /\ tmp_path' = [tmp_path EXCEPT ![p] = 0]
    /\ pre' = [pre EXCEPT ![p] = disk]
    /\ stale' = [stale EXCEPT ![p] = FALSE]
    /\ renames' = [renames EXCEPT ![p] = 0]
    /\ inv' = [inv EXCEPT ![p] = ncalls + 1]
    /\ pc' = [pc EXCEPT ![p] = "done"]
    /\ state' = [state EXCEPT ![p] = <<>>]
    /\ result' = [result EXCEPT ![p] = Rejected]
    /\ UNCHANGED <<disk, tmpdir, clock, writes>>

\* exit_code of an evaluator that exits 0 whenever it printed a result
exit_code_for_any_result(r) ==
    CASE r.status = "usage" -> 2
      [] r.status = "success" -> 0
      [] r.status = "evaluated" -> 0
      [] OTHER -> 1

\* the status a process ends with: parser.error exits with 2, an editor's
\* main returns 0 for a success envelope and 1 for any other, the evaluator
\* exits 0 for a complete phase and 1 otherwise, an uncaught exception
\* ends the interpreter with 1
exit_code(r) ==
    CASE r.status = "usage" -> 2
      [] r.status = "success" -> 0
      [] r.status = "evaluated" -> IF Get(r.data, "complete") THEN 0 ELSE 1
      [] OTHER -> 1

\* ------------------------------------------- projects at the phase gates
\* a stakeholder with research notes and documented needs
Stakeholder2 ==
    << <<"id", "s2">>, <<"name", "Ops">>, <<"type", "group">>,
       <<"notes_links", <<"n2">> >>, <<"pain_points", <<"p">> >> >>

\* stakeholders s1 (needs, no notes) and s2 in their possible conditions
StakeholderLists ==
    { <<Stakeholder1>>,
      <<Put(Stakeholder1, "notes_links", <<"n1">>), Stakeholder2>>,
      <<Stakeholder1, Stakeholder2>>,
      <<Stakeholder1,
        << <<"id", "s2">>, <<"name", "Ops">>, <<"type", "group">>,
           <<"notes_links", <<>> >>, <<"needs", <<>> >> >> >> }

Insight(id) ==
    << <<"id", id>>, <<"title", "finding">>, <<"description", "x needs y">> >>

InsightLists ==
    { <<Insight("i1"), Insight("i2")>>,
      <<Insight("i1"), Insight("i2"), Insight("i4")>> }

Assumption(id, certainty, risk) ==
    << <<"id", id>>, <<"description", "users want it">>,
       <<"certainty", certainty>>, <<"risk", risk>>, <<"status", "open">> >>

AssumptionLists ==
    { <<>>,
      <<Assumption("a1", "medium", "medium"),
        Assumption("a2", "medium", "medium")>>,
      <<Assumption("a1", "medium", "medium"),
        Assumption("a2", "low", "high")>>,
      <<Assumption("a1", "medium", "medium"),
        Put(Assumption("a2", "low", "high"), "validation_plan", "survey")>>,
      <<Assumption("a1", "medium", "medium"),
        Assumption("a2", None, None)>> }

Idea(id, status) ==
    << <<"id", id>>, <<"title", "wizard">>, <<"status", status>> >>

\* an idea with the grades grade_idea writes
Graded(idea, impact, feasibility) ==
    Put(Put(idea, "impact", impact), "feasibility", feasibility)

\* an idea with the grades check_ideate_complete reads
HandGraded(idea, impact, feasibility) ==
    Put(Put(idea, "impact_grade", impact), "feasibility_grade", feasibility)

IdeaLists ==
    { <<>>,
      <<Idea("d1", "ideated")>>,
      <<Graded(Idea("d1", "ideated"), "high", "high"),
        Graded(Idea("d2", "ideated"), "medium", "low"),
        Idea("d3", "ideated")>>,
      <<Graded(Idea("d1", "ideated"), "high", "high"),
        Graded(Idea("d2", "ideated"), "low", "low"),
        Graded(Idea("d3", "ideated"), "low", "high")>>,
      <<HandGraded(Idea("d1", "ideated"), "high", "high"),
        HandGraded(Idea("d2", "prototyping"), "medium", "low"),
        HandGraded(Idea("d3", "implemented"), "low", "low")>>,
      <<HandGraded(Idea("d1", "ideated"), "high", "high"),
        HandGraded(Idea("d2", "ideated"), "low", "low"),
        Idea("d3", "ideated")>> }

Project(phase, stakeholders, assumptions, ideas, insights) ==
    << <<"project_name", "demo">>, <<"created_at", 0>>, <<"updated_at", 0>>,
       <<"phase", phase>>,
       <<"stakeholders", stakeholders>>,
       <<"assumptions", assumptions>>,
       <<"ideas", ideas>>,
       <<"insights", insights>>,
       <<"playbacks", <<>> >> >>

\* the file edited by hand: two stakeholders with the id s1
DuplicateIdDoc ==
    Put(ValidDoc, "stakeholders",
        <<Stakeholder1, Put(Stakeholder2, "id", "s1")>>)

\* a project whose name has a letter outside ASCII
AccentDoc == Put(ValidDoc, "project_name", "Caf[e-acute]")

\* the file edited by hand: no phase
NoPhaseDoc ==
    << <<"project_name", "demo">>, <<"created_at", 0>>, <<"updated_at", 0>>,
       <<"insights", <<Insight1>> >> >>

\* currentstate.json before the first evaluation: each gate's lists in
\* every condition, the other lists as in a project under way
EvalFiles ==
    { File(FileText(Project("empathize", sh, <<>>, <<>>, ins))) :
          sh \in StakeholderLists, ins \in InsightLists }
    \cup { File(FileText(Project("define", <<Stakeholder2>>, as, <<>>, ins))) :
               as \in AssumptionLists, ins \in InsightLists }
    \cup { File(FileText(Project("ideate", <<Stakeholder2>>, <<>>, ideas,
                                 <<Insight1>>))) : ideas \in IdeaLists }
    \cup { File(FileText(DuplicateIdDoc)),
           File(FileText(AccentDoc)),
           File(FileText(BareDoc)),
           File(FileText(BadPhaseDoc)),
           File(FileText(NoPhaseDoc)),
           File(SubSeq(FileText(ValidDoc), 1, 4)),
           NoFile }

\* the edits that move a project towards a gate, and command lines that
\* the parsers refuse
EvalCalls ==
    { [tool |-> US, id |-> "s1", notes_links |-> <<"n1">>],
      [tool |-> US, id |-> "s1", role |-> "lead"],
      [tool |-> US, id |-> "s2", type |-> "team"],
      [tool |-> GA, id |-> "a2", validation_plan |-> "survey"],
      [tool |-> GA, id |-> "a2", certainty |-> "low", risk |-> "high"],
      [tool |-> GA, id |-> "a2", certainty |-> "sure"],
      [tool |-> GI, id |-> "d3", impact |-> "medium",
       feasibility |-> "high"],
      [tool |-> GI, id |-> "d1", status |-> "prototyping"],
      [tool |-> GI, id |-> "d1", status |-> "validated"],
      [tool |-> AI, id |-> "i3", title |-> "pattern",
       description |-> "all said z"],
      [tool |-> AI, id |-> "i3", title |-> "pattern"],
      [tool |-> UP, new_phase |-> "prototype"],
      [tool |-> UP, new_phase |-> "launch"] }

InitEval ==
    /\ disk \in EvalFiles
    /\ tmpdir = <<>>
    /\ clock = 1
    /\ ncalls = 0
    /\ pc = [p \in Procs |-> "idle"]
    /\ call = [p \in Procs |-> NoCall]
    /\ state = [p \in Procs |-> <<>>]
    /\ data = [p \in Procs |-> NoData]
    /\ tmp_path = [p \in Procs |-> 0]
    /\ result = [p \in Procs |-> NoResult]
    /\ pre = [p \in Procs |-> NoFile]
    /\ stale = [p \in Procs |-> FALSE]
    /\ renames = [p \in Procs |-> 0]
    /\ inv = [p \in Procs |-> 0]
    /\ writes = <<>>

\* main of an editor: parse_args, then the editor function
Main(p, c) ==
    \/ parse_args(c) /\ Invoke(p, c)
    \/ Usage(p, c)

\* one caller at the command line: editors in one slot, evaluations in the
\* other, one at a time
NextEval ==
    \/ \E c \in EvalCalls : Main(1, c)
    \/ \E a \in EvalArgs : Evaluate(2, a)
    \/ Step(1)

SpecEval == InitEval /\ [][NextEval]_vars

\* ==================================================================
\* Properties of the evaluator
\* ==================================================================
\* process p has finished an evaluation that printed a result
Answered(p) ==
    pc[p] = "done" /\ call[p].tool = CC /\ result[p].status = "evaluated"

\* ... of the phase ph
Gate(p, ph) == Answered(p) /\ Get(result[p].data, "phase") = ph

Complete(p) == Get(result[p].data, "complete")
Reasons(p) == Get(result[p].data, "reasons")

\* the key is present and holds something other than null
Holds(e, key) == Has(e, key) /\ Get(e, key) # None

LowCertaintyHighRisk(a) ==
    /\ Holds(a, "certainty") /\ Get(a, "certainty") = "low"
    /\ Holds(a, "risk") /\ Get(a, "risk") = "high"

\* what the define gate is said to require of a document
DefineRules(doc) ==
    LET assumptions == ListOf(doc, "assumptions")
    IN  /\ Len(ListOf(doc, "insights")) >= 3
        /\ Len(assumptions) >= 1
        /\ \A i \in 1..Len(assumptions) :
              /\ Holds(assumptions[i], "certainty")
              /\ Holds(assumptions[i], "risk")
              /\ LowCertaintyHighRisk(assumptions[i])
                    => Holds(assumptions[i], "validation_plan")

\* C21: the define gate is complete exactly when the document has at least
\* 3 insights, at least 1 assumption, certainty and risk graded on every
\* assumption, and a validation plan on every low-certainty/high-risk
\* assumption
C21_DefineGate ==
    \A p \in Procs :
        Gate(p, "define") => (Complete(p) <=> DefineRules(Loaded(p)))

\* an editor wrote the file, and the define gate then refused a document
\* that meets every rule, its risky assumption carrying a validation plan
C21_Witness ==
    \E p \in Procs :
        /\ Gate(p, "define")
        /\ inv[p] = 2
        /\ Succeeded(1) /\ call[1].tool = GA
        /\ Given(call[1], "validation_plan")
        /\ DefineRules(Loaded(p))
        /\ \E i \in 1..Len(ListOf(Loaded(p), "assumptions")) :
              LowCertaintyHighRisk(ListOf(Loaded(p), "assumptions")[i])
        /\ ~Complete(p)

\* what the ideate gate is said to require of a document, the grades being
\* the fields grade_idea writes
IdeateRules(doc) ==
    LET ideas == ListOf(doc, "ideas")
    IN  /\ Len(ideas) >= 3
        /\ \A i \in 1..Len(ideas) :
              Holds(ideas[i], "impact") /\ Holds(ideas[i], "feasibility")
        /\ Cardinality({i \in 1..Len(ideas) :
              Holds(ideas[i], "impact")
                 /\ Get(ideas[i], "impact") \in {"high", "medium"}}) >= 2

\* C22: the ideate gate is complete exactly when the document has at least
\* 3 ideas, impact and feasibility graded on every idea, and at least 2
\* ideas of high or medium impact, the grades being the fields `impact` and
\* `feasibility` that grade_idea writes
C22_IdeateGate ==
    \A p \in Procs :
        Gate(p, "ideate") => (Complete(p) <=> IdeateRules(Loaded(p)))

\* grade_idea graded the last ungraded idea, and the ideate gate then
\* refused the document although it meets every rule
C22_Witness ==
    \E p \in Procs :
        /\ Gate(p, "ideate")
        /\ inv[p] = 2
        /\ Succeeded(1) /\ call[1].tool = GI
        /\ Given(call[1], "impact")
        /\ IdeateRules(Loaded(p))
        /\ ~Complete(p)

\* a stakeholder whose list under the key is missing or empty
Lacks(e, key) == ~Has(e, key) \/ Get(e, key) = <<>>

\* what the empathize gate is said to require of a document
EmpathizeRules(doc) ==
    LET stakeholders == ListOf(doc, "stakeholders")
    IN  /\ Len(stakeholders) >= 2
        /\ \A i \in 1..Len(stakeholders) :
              /\ ~Lacks(stakeholders[i], "notes_links")
              /\ ~Lacks(stakeholders[i], "needs")
                    \/ ~Lacks(stakeholders[i], "pain_points")
        /\ Len(ListOf(doc, "insights")) >= 3

\* C23: the empathize gate is complete exactly when the document has at
\* least 2 stakeholders, every stakeholder has research notes and has needs
\* or pain points, and there are at least 3 insights
C23_EmpathizeGate ==
    \A p \in Procs :
        Gate(p, "empathize") => (Complete(p) <=> EmpathizeRules(Loaded(p)))

\* update_stakeholder supplied the missing notes, and the gate then passed
C23_Witness ==
    \E p \in Procs :
        /\ Gate(p, "empathize")
        /\ inv[p] = 2
        /\ Succeeded(1) /\ call[1].tool = US
        /\ Given(call[1], "notes_links")
        /\ Complete(p)

\* some idea of the document has one of the statuses
SomeIdea(doc, statuses) ==
    \E i \in 1..Len(ListOf(doc, "ideas")) :
        /\ Has(ListOf(doc, "ideas")[i], "status")
        /\ Get(ListOf(doc, "ideas")[i], "status") \in statuses

\* C24: the prototype gate is complete exactly when some idea has status
\* prototyping, the iterate gate exactly when some idea has status validated
\* or implemented, whatever the document's phase and other fields are
C24_PrototypeAndIterateGates ==
    \A p \in Procs :
        /\ Gate(p, "prototype")
              => (Complete(p) <=> SomeIdea(Loaded(p), {"prototyping"}))
        /\ Gate(p, "iterate")
              => (Complete(p)
                    <=> SomeIdea(Loaded(p), {"validated", "implemented"}))

\* grade_idea set an idea's status in a project that is in another phase
\* and fails that phase's gate, and the prototype or iterate gate passed
C24_Witness ==
    \E p \in Procs :
        /\ Gate(p, "prototype") \/ Gate(p, "iterate")
        /\ inv[p] = 2
        /\ Succeeded(1) /\ call[1].tool = GI
        /\ Given(call[1], "status")
        /\ Get(Loaded(p), "phase") = "ideate"
        /\ ~checkers("ideate", Loaded(p)).complete
        /\ Complete(p)

\* the evaluation gave a reason with this message
Told(p, kind) == \E i \in 1..Len(Reasons(p)) : Reasons(p)[i][1] = kind

\* ... about the stakeholder of this name
ToldOf(p, kind, name) ==
    \E i \in 1..Len(Reasons(p)) : Reasons(p)[i] = <<kind, name>>

\* every unmet rule of the empathize gate has its reason
EmpathizeTold(p, doc) ==
    LET stakeholders == ListOf(doc, "stakeholders")
    IN  /\ Len(stakeholders) < 2
              => Told(p, "Need at least 2 stakeholder groups defined")
        /\ \A i \in 1..Len(stakeholders) :
              /\ Lacks(stakeholders[i], "notes_links")
                    => ToldOf(p, "needs research notes",
                              Get(stakeholders[i], "name"))
              /\ Lacks(stakeholders[i], "needs")
                    /\ Lacks(stakeholders[i], "pain_points")
                    => ToldOf(p, "needs documented needs or pain points",
                              Get(stakeholders[i], "name"))
        /\ Len(ListOf(doc, "insights")) < 3
              => Told(p, "Need at least 3 synthesized insights")

\* every unmet rule of the define gate has its reason
DefineTold(p, doc) ==
    LET assumptions == ListOf(doc, "assumptions")
    IN  /\ Len(ListOf(doc, "insights")) < 3
              => Told(p, "Need at least 3 validated insights")
        /\ Len(assumptions) < 1 => Told(p, "No assumptions identified")
        /\ (\E i \in 1..Len(assumptions) :
               ~Holds(assumptions[i], "certainty")
                  \/ ~Holds(assumptions[i], "risk"))
              => Told(p, "assumptions need certainty/risk grades")
        /\ (\E i \in 1..Len(assumptions) :
               /\ LowCertaintyHighRisk(assumptions[i])
               /\ ~Holds(assumptions[i], "validation_plan"))
              => Told(p, "high-risk assumptions need validation plan")

\* every unmet rule of the ideate gate has its reason
IdeateTold(p, doc) ==
    LET ideas == ListOf(doc, "ideas")
    IN  /\ Len(ideas) < 3 => Told(p, "Need at least 3 solution ideas")
        /\ (\E i \in 1..Len(ideas) :
               ~Holds(ideas[i], "impact") \/ ~Holds(ideas[i], "feasibility"))
              => Told(p, "ideas need impact/feasibility grades")
        /\ Cardinality({i \in 1..Len(ideas) :
               Holds(ideas[i], "impact")
                  /\ Get(ideas[i], "impact") \in {"high", "medium"}}) < 2
              => Told(p, "Need at least 2 ideas with medium/high impact")

\* every unmet rule of the evaluated gate has its reason
AllTold(p, doc) ==
    /\ Gate(p, "empathize") => EmpathizeTold(p, doc)
    /\ Gate(p, "define") => DefineTold(p, doc)
    /\ Gate(p, "ideate") => IdeateTold(p, doc)
    /\ Gate(p, "prototype") /\ ~SomeIdea(doc, {"prototyping"})
          => Told(p, "At least one idea must have a prototype")
    /\ Gate(p, "iterate") /\ ~SomeIdea(doc, {"validated", "implemented"})
          => Told(p, "At least one idea must be validated through iteration")

\* C25: in every evaluation complete is true exactly when the list of
\* reasons is empty, and the list holds a reason for every unmet rule of
\* the evaluated phase, all of them at once
C25_EveryUnmetRuleReported ==
    \A p \in Procs :
        Answered(p) =>
            /\ Complete(p) <=> Reasons(p) = <<>>
            /\ AllTold(p, Loaded(p))

\* the ideate gate of a project without ideas: fewer than 3 ideas and
\* fewer than 2 of high or medium impact, and one reason
C25_Witness ==
    \E p \in Procs :
        /\ Gate(p, "ideate")
        /\ ListOf(Loaded(p), "ideas") = <<>>
        /\ Len(Reasons(p)) = 1

\* the document has at least 3 insights and the two assumptions a1 and a2,
\* a1 graded medium/medium and a2 graded as given, neither with a plan
TwoAssumptions(doc, certainty, risk) ==
    LET assumptions == ListOf(doc, "assumptions")
    IN  /\ Len(ListOf(doc, "insights")) >= 3
        /\ Len(assumptions) = 2
        /\ Get(assumptions[1], "certainty") = "medium"
        /\ Get(assumptions[1], "risk") = "medium"
        /\ Get(assumptions[2], "certainty") = certainty
        /\ Get(assumptions[2], "risk") = risk
        /\ \A i \in 1..2 : ~Has(assumptions[i], "validation_plan")

\* C26: with 3 insights and two assumptions graded medium/medium the define
\* gate is complete with no reasons; with one of the two regraded to low
\* certainty and high risk, and no validation plan, it is incomplete with
\* exactly one reason, the one about the validation plan
C26_DefineGateExample ==
    \A p \in Procs :
        Gate(p, "define") =>
            /\ TwoAssumptions(Loaded(p), "medium", "medium")
                  => Complete(p) /\ Reasons(p) = <<>>
            /\ TwoAssumptions(Loaded(p), "low", "high")
                  => /\ ~Complete(p)
                     /\ Reasons(p) =
                           << <<"high-risk assumptions need validation plan",
                                "1">> >>

\* grade_assumption regraded a2 to low/high, and the define gate gave the
\* one reason
C26_Witness ==
    \E p \in Procs :
        /\ Gate(p, "define")
        /\ inv[p] = 2
        /\ Succeeded(1) /\ call[1].tool = GA
        /\ Given(call[1], "certainty")
        /\ TwoAssumptions(Loaded(p), "low", "high")
        /\ Len(Reasons(p)) = 1

\* process p has finished a run of the evaluator
Checked(p) == pc[p] = "done" /\ call[p].tool = CC

\* the file the run found is a JSON object
Loadable(p) == pre[p].exists /\ json_load(pre[p].text).ok

\* C27: the evaluator never ends in an error on a loadable document: also
\* when the phase is missing or not one of the five, or the entity lists
\* are missing, it returns a result with phase, complete, reasons and
\* project
C27_EvaluatorNeverErrors ==
    \A p \in Procs :
        Checked(p) /\ Loadable(p) =>
            /\ result[p].status = "evaluated"
            /\ Keys(result[p].data)
                  = {"phase", "complete", "reasons", "project"}

\* a document without a phase was evaluated without --phase, and the
\* evaluator ended in the error branch
C27_Witness ==
    \E p \in Procs :
        /\ Checked(p)
        /\ Loadable(p)
        /\ ~Given(call[p], "phase")
        /\ ~Has(Loaded(p), "phase")
        /\ result[p] = Raised("ValueError")

\* this step is a run of the evaluator in slot p
Evaluates(p) == inv'[p] # inv[p] /\ call'[p].tool = CC

\* C28: an evaluation writes nothing: currentstate.json and the project
\* directory are after it what they were before it, and an evaluation that
\* directly follows an evaluation of the same phase returns the same
\* complete flag and the same reasons
C28_EvaluationReadOnly ==
    [][\A p \in Procs :
          Evaluates(p) =>
              /\ disk' = disk
              /\ tmpdir' = tmpdir
              /\ writes' = writes
              /\ (/\ Answered(p)
                  /\ inv[p] = ncalls
                  /\ result'[p].status = "evaluated"
                  /\ Get(result'[p].data, "phase")
                        = Get(result[p].data, "phase"))
                 => /\ Get(result'[p].data, "complete") = Complete(p)
                    /\ Get(result'[p].data, "reasons") = Reasons(p)]_vars

\* two evaluations in a row, no editor before or between them, the second
\* of an incomplete phase, and the file is the one the first found
C28_Witness ==
    \E p \in Procs :
        /\ Answered(p)
        /\ inv[p] = 2
        /\ \A q \in Procs : q # p => inv[q] = 0
        /\ ~Complete(p)
        /\ disk = pre[p]

\* two entities of one list of the document have the same id
DuplicateId(doc) == \E key \in EntityLists : ~UniqueIds(ListOf(doc, key))

\* process p has finished a run of an editor
EditorDone(p) == pc[p] = "done" /\ call[p].tool \notin {CC, "none"}

\* C29: the validator of the editors rejects every document in which two
\* entities of one list have the same id, so an editor that loaded such a
\* document returns an error and persists nothing
C29_DuplicateIdsRejected ==
    \A p \in Procs :
        (EditorDone(p) /\ Loadable(p) /\ DuplicateId(Loaded(p)))
            => /\ result[p].status # "success"
               /\ renames[p] = 0
               /\ disk = pre[p]

\* update_stakeholder loaded a document with two stakeholders of one id,
\* succeeded, and the file it wrote has the two still
C29_Witness ==
    \E p \in Procs :
        /\ Succeeded(p)
        /\ call[p].tool = US
        /\ DuplicateId(Loaded(p))
        /\ renames[p] = 1
        /\ DuplicateId(OnDisk)
        /\ OnDisk # Loaded(p)

\* process p has ended by itself
Exited(p) == pc[p] = "done" /\ call[p].tool # "none"

\* the editor in slot p printed an envelope
Printed(p) == EditorDone(p) /\ result[p].status \in {"success", "error"}

\* the exit status of an editor: 0 exactly with a success envelope, and 1
\* in every other case
EditorExit01(p) ==
    EditorDone(p) =>
        /\ exit_code(result[p]) = 0 <=> result[p].status = "success"
        /\ exit_code(result[p]) = 1 <=> result[p].status # "success"

\* the exit status of the evaluator: 0 exactly when the evaluated phase is
\* complete, 1 when it is not or an error occurred
EvaluatorExit01(p) ==
    Checked(p) =>
        /\ exit_code(result[p]) = 0 <=> (Answered(p) /\ Complete(p))
        /\ exit_code(result[p]) = 1 <=> ~(Answered(p) /\ Complete(p))

\* C30: an editor exits with 0 exactly when its envelope has status success
\* and with 1 otherwise; the evaluator exits with 0 exactly when the
\* evaluated phase is complete and with 1 when it is incomplete or an
\* error occurred
C30_ExitCodeIsOutcome ==
    \A p \in Procs : EditorExit01(p) /\ EvaluatorExit01(p)

\* C30, with the parser's refusals set apart: an editor that printed an
\* envelope exits with 0 exactly when its status is success and with 1
\* otherwise; an editor whose command line the parser refused printed no
\* envelope and exits with 2; the evaluator exits with 0 exactly when the
\* evaluated phase is complete and with 1 otherwise
C30_ExitCodeUnlessUsage ==
    \A p \in Procs :
        /\ Printed(p) =>
              /\ exit_code(result[p]) = 0 <=> result[p].status = "success"
              /\ exit_code(result[p]) = 1 <=> result[p].status = "error"
        /\ (EditorDone(p) /\ ~Printed(p)) =>
              /\ ~parse_args(call[p])
              /\ exit_code(result[p]) = 2
        /\ EditorDone(p) /\ ~parse_args(call[p]) => ~Printed(p)
        /\ EvaluatorExit01(p)

\* the parser refused an editor's command line, which exited with 2, and
\* the evaluator exited with 1 for an incomplete phase
C30_Witness ==
    /\ Exited(1) /\ ~parse_args(call[1]) /\ exit_code(result[1]) = 2
    /\ Answered(2) /\ ~Complete(2) /\ exit_code(result[2]) = 1

\* ==================================================================
\* Properties of the envelope, the file round trip and termination
\* ==================================================================
\* the envelope has one of the two shapes
SuccessShape(r) == r.status = "success" /\ r.data # NoData /\ r.error = None
ErrorShape(r) == r.status = "error" /\ r.data = NoData /\ r.error # None

\* C31: an editor returns one envelope, when it ends and not before, and
\* the envelope is {success, data, no error} or {error, no data, message};
\* an error envelope carries no data even when the update had been applied
\* in memory
C31_EnvelopeShapes ==
    \A p \in Procs :
        /\ pc[p] = "done" => SuccessShape(result[p]) \/ ErrorShape(result[p])
        /\ pc[p] \in Running \cup {"killed"} => result[p] = NoResult

\* an editor changed the document in memory, then failed, and returned an
\* error envelope
C31_Witness ==
    \E p \in Procs :
        /\ Failed(p)
        /\ Loadable(p)
        /\ state[p] # <<>>
        /\ state[p] # Loaded(p)
        /\ ErrorShape(result[p])

\* this step starts an editor in slot p and the parser lets it through
Starts(p) == inv'[p] # inv[p] /\ call'[p].tool # CC /\ result'[p] # Rejected

\* this step is a run of the evaluator in slot p that got as far as main
Opens(p) == Evaluates(p) /\ result'[p].status # "crashed"

\* C32: after an editor has persisted its validated document D, the next
\* editor and the next evaluator load a document equal to D, in every
\* value and in the order of keys and list elements
C32_RoundTrip ==
    [][\A w \in Procs :
          (Succeeded(w) /\ inv[w] = ncalls) =>
              \A p \in Procs :
                  /\ Starts(p) => pc'[p] = "mutate" /\ state'[p] = state[w]
                  /\ Opens(p) => state'[p] = state[w]]_vars

\* an editor persisted a document whose project name is not ASCII, and the
\* evaluator that ran next evaluated a document with another project name
C32_Witness ==
    /\ Succeeded(1)
    /\ Answered(2)
    /\ inv[2] = inv[1] + 1
    /\ OnDisk = state[1]
    /\ state[2] # state[1]
    /\ Get(result[2].data, "project") # Get(state[1], "project_name")

\* ------------------------------------------------ processes left to run
\* the steps of an editor that nothing interrupts: each file operation
\* completes or fails
Work(p) ==
    \/ Mutate(p)
    \/ CreateTmp(p)
    \/ WriteTmp(p)
    \/ Rename(p)
    \/ Return(p)

\* independent callers of the editors, and evaluations between them
NextLive ==
    \/ \E p \in Procs :
          \/ \E c \in CallSet : Invoke(p, c)
          \/ Work(p)
    \/ \E a \in {[tool |-> CC], [tool |-> CC, phase |-> "define"]} :
          Evaluate(1, a)

\* ENABLED Work(p): an editor between two of its steps has a next step,
\* the file operation or its failure
Ready(p) == pc[p] \in Running

\* WF_vars(Work(p)) with ENABLED written out: the scheduler gives every
\* process its turn, and each file operation completes or fails
Fair(p) == []<>(~Ready(p)) \/ []<><<Work(p)>>_vars

SpecLive ==
    /\ Init
    /\ [][NextLive]_vars
    /\ \A p \in Procs : Fair(p)

\* C33: every editor that was started returns an envelope, whatever the
\* other process does meanwhile, and an evaluation returns in the step that
\* starts it
C33_EveryInvocationReturns ==
    /\ \A p \in Procs : (pc[p] \in Running) ~> (pc[p] = "done")
    /\ [][\A p \in Procs : Evaluates(p) => pc'[p] = "done"]_vars

\* two editors ran at the same time, one renamed under the other, and both
\* have returned
C33_Witness ==
    /\ \A p \in Procs : pc[p] = "done" /\ inv[p] > 0 /\ call[p].tool # CC
    /\ \E p \in Procs : stale[p]

\* this step is the rename of the invocation in slot p
Renames(p) == renames'[p] = renames[p] + 1

\* C34: however the invocations interleave, currentstate.json changes only
\* by an invocation's rename, and what the rename puts there is that one
\* invocation's change applied to the document it loaded; when nothing
\* runs any more the file is what the last rename put there
C34_OneMutationOfALoadedDocument ==
    /\ [][disk' # disk =>
              \E p \in Procs :
                  /\ Renames(p)
                  /\ \A q \in Procs : q # p => renames'[q] = renames[q]
                  /\ Len(writes') = Len(writes) + 1
                  /\ writes'[Len(writes')].inv = inv[p]
                  /\ json_load(disk'.text).ok
                  /\ json_load(disk'.text).value
                        \in Edited(Loaded(p), call[p])]_vars
    /\ [](\A p \in Procs :
              LastWriter(p) =>
                  /\ json_load(disk.text).ok
                  /\ OnDisk \in Edited(Loaded(p), call[p]))

\* two invocations loaded the same document, both renamed and returned,
\* and the file is the later one's change to that document, without the
\* earlier one's change
C34_Witness ==
    \E p, q \in Procs :
        /\ p # q
        /\ Succeeded(p) /\ Succeeded(q)
        /\ pre[p] = pre[q]
        /\ Len(writes) = 2
        /\ LastWriter(q)
        /\ OnDisk \in Edited(Loaded(q), call[q])
        /\ \A D \in Edited(Loaded(p), call[p]) :
              OnDisk \notin Edited(D, call[q])

\* ==================================================================
\* The dispatcher: tool_runner.py
\* ==================================================================
\* the edit tools of TOOL_REGISTRY
TOOL_REGISTRY == {US, GA, AI, GI, RP, UP}

\* the parameters that are booleans: a flag on the command line when true,
\* nothing when false
Flags ==
    {"append_needs", "append_pain_points", "append_notes",
     "append_prototype_links"}

\* build_command_args: the options the child's parser will see
build_command_args(params) ==
    [k \in {k \in DOMAIN params : k \notin Flags \/ params[k]} |-> params[k]]

\* run_tool ends before it starts a child
Refuse(p, c, kind) ==
    /\ pc[p] \in Free
    /\ \A q \in Procs : q < p => pc[q] \notin Free
    /\ ncalls < MaxCalls
    /\ ncalls' = ncalls + 1
    /\ call' = [call EXCEPT ![p] = c]
    /\ data' = [data EXCEPT ![p] = NoData]
    /\ tmp_path' = [tmp_path EXCEPT ![p] = 0]
    /\ pre' = [pre EXCEPT ![p] = disk]
    /\ stale' = [stale EXCEPT ![p] = FALSE]
    /\ renames' = [renames EXCEPT ![p] = 0]
    /\ inv' = [inv EXCEPT ![p] = ncalls + 1]
    /\ pc' = [pc EXCEPT ![p] = "done"]
    /\ state' = [state EXCEPT ![p] = <<>>]
    /\ result' = [result EXCEPT ![p] = Envelope(Error(kind, <<>>))]
    /\ UNCHANGED <<disk, tmpdir, clock, writes>>

\* run_tool up to subprocess.run: the registry, the script, the command
RunTool(p, c) ==
    \/ c.tool \notin TOOL_REGISTRY /\ Refuse(p, c, "UnknownTool")
    \/ c.tool \in TOOL_REGISTRY /\ Refuse(p, c, "ScriptNotFound")
    \/ c.tool \in TOOL_REGISTRY /\ Main(p, build_command_args(c))

\* what run_tool returns once the child has ended: the envelope the child
\* printed, an error when the child printed none, an error when the
\* 30 seconds ran out and subprocess.run killed the child
run_tool(p) ==
    IF pc[p] = "killed" THEN Envelope(Error("TimeoutExpired", <<>>))
    ELSE IF result[p].status = "usage"
    THEN Envelope(Error("JSONDecodeError", <<>>))
    ELSE result[p]

\* calls through the dispatcher: edits, refused command lines, a tool that
\* is not registered
RunCalls ==
    { [tool |-> US, id |-> "s1", role |-> "lead"],
      [tool |-> US, id |-> "s1", needs |-> <<"b">>, append_needs |-> FALSE],
      [tool |-> US, id |-> "s1", needs |-> <<"b">>, append_needs |-> TRUE],
      [tool |-> US, id |-> "s2", name |-> "Ops", type |-> "team"],
      [tool |-> GA, id |-> "a1", certainty |-> "high", risk |-> "low"],
      [tool |-> GA, id |-> "a9", certainty |-> "high"],
      [tool |-> GI, id |-> "d1", impact |-> "high", feasibility |-> "low"],
      [tool |-> AI, id |-> "i2", title |-> "pattern",
       description |-> "all said z"],
      [tool |-> AI, id |-> "i1", title |-> "pattern",
       description |-> "all said z"],
      [tool |-> RP, id |-> "p1", date |-> "2024-01-15",
       audience |-> <<"lt">>],
      [tool |-> UP, new_phase |-> "ideate"],
      [tool |-> UP, new_phase |-> "launch"],
      [tool |-> "delete_insight", id |-> "i1"] }

\* one caller of run_tool, one call at a time; Kill is the timeout
NextRun ==
    \/ \E c \in RunCalls : RunTool(1, c)
    \/ Step(1)

SpecRun == Init /\ [][NextRun]_vars

\* run_tool has returned in slot p
Ran(p) == pc[p] \in {"done", "killed"} /\ call[p].tool # "none"

PairDoc ==
    Project("define",
            <<Stakeholder1, Stakeholder2>>,
            <<Assumption("a1", "medium", "medium"),
              Assumption("a2", "low", "high")>>,
            <<Idea("d1", "ideated"), Idea("d2", "ideated")>>,
            <<Insight1>>)

\* the same project with assumption a1 not graded yet
UngradedPairDoc ==
    Put(PairDoc, "assumptions",
        <<Assumption("a1", None, None), Assumption("a2", "low", "high")>>)

PairFiles == { File(FileText(PairDoc)), File(FileText(UngradedPairDoc)) }

\* field updates of two entities of each list and of the phase, a creation,
\* and an update of an entity that is not there
PairCalls ==
    { [tool |-> US, id |-> "s1", role |-> "lead"],
      [tool |-> US, id |-> "s2", needs |-> <<"b">>, append_needs |-> TRUE],
      [tool |-> US, id |-> "s3", name |-> "Ops", type |-> "team"],
      [tool |-> GA, id |-> "a1", certainty |-> "high", risk |-> "low"],
      [tool |-> GA, id |-> "a2", status |-> "validating"],
      [tool |-> GA, id |-> "a9", certainty |-> "high"],
      [tool |-> GI, id |-> "d1", impact |-> "high", feasibility |-> "low"],
      [tool |-> GI, id |-> "d2", prototype_links |-> <<"l1">>,
       append_prototype_links |-> TRUE],
      [tool |-> UP, new_phase |-> "ideate"],
      [tool |-> UP, new_phase |-> "prototype"] }

InitPair ==
    /\ disk \in PairFiles
    /\ tmpdir = <<>>
    /\ clock = 1
    /\ ncalls = 0
    /\ pc = [p \in Procs |-> "idle"]
    /\ call = [p \in Procs |-> NoCall]
    /\ state = [p \in Procs |-> <<>>]
    /\ data = [p \in Procs |-> NoData]
    /\ tmp_path = [p \in Procs |-> 0]
    /\ result = [p \in Procs |-> NoResult]
    /\ pre = [p \in Procs |-> NoFile]
    /\ stale = [p \in Procs |-> FALSE]
    /\ renames = [p \in Procs |-> 0]
    /\ inv = [p \in Procs |-> 0]
    /\ writes = <<>>

\* one caller, one invocation after the other, every call of PairCalls
NextPair ==
    \/ \E c \in PairCalls : Invoke(1, c)
    \/ Step(1)

SpecPair == InitPair /\ [][NextPair]_vars

\* the document without its stamp
Undated(D) == Put(D, "updated_at", 0)

\* the documents currentstate.json may hold before the first field edit
Before == { json_load(f.text).value : f \in EditFiles }

Flagged(c, flag) == Given(c, flag) /\ c[flag]

\* a call that sets fields and appends to no list
Replaces(c) ==
    \/ c.tool \in {GA, UP}
    \/ c.tool = GI /\ ~Flagged(c, "append_prototype_links")
    \/ /\ c.tool = US
       /\ ~Flagged(c, "append_needs")
       /\ ~Flagged(c, "append_pain_points")
       /\ ~Flagged(c, "append_notes")

\* the entity a call names was in the document
Existing(D, c) ==
    c.tool = US => HasId(D, "stakeholders", c.id)

\* slot p runs the second invocation, and the document it loaded is what
\* the same call had left
Repeats(p) ==
    /\ inv[p] = 2
    /\ Len(writes) >= 1
    /\ writes[1].inv = 1
    /\ \E D \in Before :
          Existing(D, call[p]) /\ Loaded(p) \in Edited(D, call[p])

\* C36: the same replace-mode update_stakeholder (on an existing
\* stakeholder), grade_assumption, grade_idea or update_phase applied a
\* second time leaves the document of the first time except for
\* updated_at; the same add_insight or record_playback fails the second
\* time and leaves the file as it was
C36_ReplaceIsIdempotent ==
    \A p \in Procs :
        pc[p] = "done" /\ Repeats(p) =>
            /\ Replaces(call[p]) =>
                  /\ Undated(OnDisk) = Undated(Loaded(p))
                  /\ Succeeded(p) => LastWriter(p)
            /\ call[p].tool \in {AI, RP} => Failed(p) /\ disk = pre[p]

\* a replaced list written a second time
C36_Witness ==
    \E p \in Procs :
        /\ Repeats(p)
        /\ Succeeded(p)
        /\ LastWriter(p)
        /\ Len(writes) = 2
        /\ call[p].tool = US
        /\ Given(call[p], "needs")
        /\ Replaces(call[p])

\* the second add_insight with the same id, refused
RepeatRefused ==
    \E p \in Procs :
        /\ Repeats(p)
        /\ Failed(p)
        /\ call[p].tool = AI
        /\ result[p].error = "AlreadyExists"

\* the documents currentstate.json may hold before the first of two updates
BeforePair == { json_load(f.text).value : f \in PairFiles }

\* the entity a field update names
Target(c) == IF c.tool = UP THEN <<UP>> ELSE <<c.tool, c.id>>

\* the list a field update works on
ListName(c) ==
    CASE c.tool = US -> "stakeholders"
      [] c.tool = GA -> "assumptions"
      [] c.tool = GI -> "ideas"

\* a field update of the phase or of an entity that was there
FieldUpdate(D, c) ==
    /\ c.tool \in {US, GA, GI, UP}
    /\ c.tool # UP => HasId(D, ListName(c), c.id)

\* the update succeeds on document D
Succeeds(D, c) == Edited(D, c) # {}

\* the documents that call b and then call a leave, starting from D
InOrder(D, b, a) ==
    UNION { Edited(D1, a) : D1 \in Edited(D, b) }

\* slot p has run update b with success on what update a had left of
\* document D
RanSecond(p, D, a) ==
    /\ inv[p] = 2
    /\ Succeeded(p)
    /\ LastWriter(p)
    /\ Len(writes) = 2
    /\ writes[1].inv = 1
    /\ FieldUpdate(D, a)
    /\ FieldUpdate(D, call[p])
    /\ Target(a) # Target(call[p])
    /\ Loaded(p) \in Edited(D, a)

\* the other order ends with both updates made and with this document
SameInOtherOrder(p, D, a) ==
    /\ InOrder(D, call[p], a) # {}
    /\ \A other \in InOrder(D, call[p], a) :
          Undated(other) = Undated(OnDisk)

\* C37: two successful field updates of different entities or different
\* parts of the document, run one after the other, leave the document that
\* the other order leaves, except for updated_at
C37_UpdatesCommute ==
    \A p \in Procs : \A D \in BeforePair : \A a \in PairCalls :
        RanSecond(p, D, a) => SameInOtherOrder(p, D, a)

\* grading a1 and then updating a2 both succeeded; in the other order the
\* update of a2 is refused while a1 is not graded, and the file differs
C37_Witness ==
    \E p \in Procs : \E D \in BeforePair : \E a \in PairCalls :
        /\ RanSecond(p, D, a)
        /\ a.tool = GA
        /\ call[p].tool = GA
        /\ ~Succeeds(D, call[p])
        /\ \A other \in Edited(D, a) : Undated(other) # Undated(OnDisk)

\* updates that each succeed on the document commute
CommuteWhenEachSucceeds ==
    \A p \in Procs : \A D \in BeforePair : \A a \in PairCalls :
        RanSecond(p, D, a) /\ Succeeds(D, call[p]) =>
            SameInOtherOrder(p, D, a)

\* two assumptions of one list updated, each update good on its own
CommutedPair ==
    \E p \in Procs : \E D \in BeforePair : \E a \in PairCalls :
        /\ RanSecond(p, D, a)
        /\ Succeeds(D, call[p])
        /\ a.tool = GA
        /\ call[p].tool = GA
        /\ Undated(OnDisk) # Undated(Loaded(p))
        /\ Undated(Loaded(p)) # Undated(D)

\* ==================================================================
\* Properties of the temporary file
\* ==================================================================
\* the temporary file of slot p's invocation is in the project directory
TmpLeft(p) == tmp_path[p] \in DOMAIN tmpdir

\* C38: after an editor invocation has returned, with success or with an
\* error, no temporary file it created is left in the project directory
C38_NoTmpLeftBehind ==
    \A p \in Procs :
        pc[p] = "done" /\ call[p].tool \in TOOL_REGISTRY => ~TmpLeft(p)

\* the write of the temporary file failed part-way: the editor returned an
\* error and its half-written file is in the directory
C38_Witness ==
    \E p \in Procs :
        /\ Failed(p)
        /\ result[p].error = "Exception"
        /\ TmpLeft(p)
        /\ tmpdir[tmp_path[p]] # <<>>
        /\ ~json_load(tmpdir[tmp_path[p]]).ok
        /\ disk = pre[p]

\* a successful invocation leaves no temporary file
NoTmpAfterSuccess ==
    \A p \in Procs : Succeeded(p) => ~TmpLeft(p)

====
